---- MODULE Spec2Model ----
(***************************************************************************)
(* astrbot_plugin_tool_prompts: the deferred tool-result scanner           *)
(* (tool_adapter.py, process_tool_response_from_history) and the media     *)
(* reference extractor (main.py, on_llm_response_handler).                 *)
(*                                                                         *)
(* Python dicts are functions whose DOMAIN is the set of keys present.     *)
(* Python strings that the code slices or matches are sequences of         *)
(* one-character strings; positions in the model are 1-based, offsets in   *)
(* the claims are the 0-based Python offsets (model position - 1).         *)
(***************************************************************************)
EXTENDS Integers, Sequences, FiniteSets, TLC

VARIABLES
    attrs,                        \* attributes the plugin instance carries
    session_processed_indices,    \* dict session id -> set of history indices
    session_last_history_length,  \* dict session id -> int
    store,                        \* the persisted state file
    conv,                         \* conversation_manager: session id -> history
    last,                         \* the trigger that has just returned
    handed,                       \* session id -> index -> handler calls so far
    grown,                        \* session id -> history was only appended to
    restarts,                     \* constructions of the plugin after the first
    resp,                         \* the LLMResponse of the current event
    event_flag,                   \* event._media_processed_by_tool_prompts_plugin
    outbox,                       \* messages sent with event.send, in order
    fs,                           \* the paths that exist on the local filesystem
    orig,                         \* the response as the LLM produced it
    calls,                        \* calls of on_llm_response_handler so far
    req,                          \* the ProviderRequest: contexts and prompt
    segs,                         \* the segments of the quoted message
    cfg,                          \* self.config and self.temp_media_dir
    quote,                        \* how far the lookup of the quoted message gets
    during,                       \* what else happens while the request handler runs
    downloads,                    \* the URLs download_media was called with
    req0,                         \* the request as on_llm_request_handler got it
    rcalls,                       \* calls of on_llm_request_handler so far
    tool_env,                     \* what a call of the media tool meets
    tool_segs,                    \* the segments of the message it quotes
    tool_results,                 \* the results the tool yielded, in order
    tool_calls,                   \* the outside calls the tool made, in order
    tool_done,                    \* understand_media_from_reply has returned
    temp_files,                   \* the files of the tool in the temp directory
    running                       \* the triggers in progress, where each stands

adapterVars == <<attrs, session_processed_indices, session_last_history_length,
                 store, conv, last, handed, grown, restarts>>

responseVars == <<resp, event_flag, outbox, fs, orig, calls>>

requestVars == <<req, segs, cfg, quote, during, downloads, req0, rcalls>>

toolVars == <<tool_env, tool_segs, tool_results, tool_calls, tool_done,
             temp_files>>

triggerVars == <<running>>

vars == <<adapterVars, responseVars, requestVars, toolVars, triggerVars>>

-----------------------------------------------------------------------------
(* Bounds of the model. *)

\* Entries over all conversations together.
MaxHist == 3

\* Plugin constructions after the first one.
MaxRestarts == 1

\* Pieces a response text is composed of.
MaxAtoms == 3

\* Segments of the quoted message.
MaxSegs == 2

\* Calls of on_llm_response_handler for one event.
MaxCalls == 2

-----------------------------------------------------------------------------
(* Values. *)

NONE == "None"

Sessions == {"s1", "s2"}

\* A conversation's history, by what conversation.history holds:
\*   NoHistory    None or the empty string (or no conversation at all)
\*   BadHistory   text json.loads rejects, or JSON that is not a list
\*   ListOf(h)    the JSON of the list h
NoHistory == [kind |-> "none", list |-> <<>>]

BadHistory == [kind |-> "bad", list |-> <<>>]

ListOf(h) == [kind |-> "list", list |-> h]

SD_IMAGE_GEN_PREFIX == <<"sd_image_gen-generate_sd_image">>

OPENAPI_SPEECH_PREFIX == <<"openapi_integrator_mcp-generate_speech">>

GEMINI_EDIT_IMAGE_PREFIX == <<"gemini_integrator_mcp-gemini_edit_image">>

\* str.startswith on identifiers written as sequences of tokens
StartsWith(s, prefix) ==
    /\ Len(s) >= Len(prefix)
    /\ SubSeq(s, 1, Len(prefix)) = prefix

\* The payloads a tool entry's content string can hold:
\*   ""          the empty string
\*   "not_json"  text json.loads rejects
\*   "list_url"  [{"url": u}]          "list_path" [{"path": p}], p exists
\*   "obj_url"   {"cfImageUrl": u}     "obj_path"  {"localPath": p}, p exists
\*   "list_none" [{}]                  "empty_list" []
Payloads == {"", "not_json", "list_url", "list_path", "obj_url", "obj_path",
             "list_none", "empty_list"}

\* A history entry: keys is the set of keys the dict holds; tool_call_id and
\* content are read only when their key is present.
ToolEntry(id, content) ==
    [role |-> "tool", keys |-> {"role", "tool_call_id", "content"},
     tool_call_id |-> id, content |-> content]

\* The history entries the environment appends.
Entries ==
    { [role |-> "user", keys |-> {"role", "content"},
       tool_call_id |-> <<>>, content |-> "text"],
      ToolEntry(GEMINI_EDIT_IMAGE_PREFIX \o <<"_1">>, "obj_url"),
      ToolEntry(SD_IMAGE_GEN_PREFIX, "not_json"),
      ToolEntry(OPENAPI_SPEECH_PREFIX, "list_url"),
      ToolEntry(<<"web_search-query">>, "list_url"),
      ToolEntry(SD_IMAGE_GEN_PREFIX, "") }

-----------------------------------------------------------------------------
(* Python dict operations. *)

Get(d, k, default) == IF k \in DOMAIN d THEN d[k] ELSE default

\* Mutant: a store under one key overwrites the value of every key.
Put_EveryKey(d, k, v) == [x \in (DOMAIN d) \cup {k} |-> v]

Put(d, k, v) == [x \in (DOMAIN d) \cup {k} |-> IF x = k THEN v ELSE d[x]]

EmptyDict == [x \in {} |-> 0]

-----------------------------------------------------------------------------
(* The tool-result handlers: what one call returns and how many messages   *)
(* it sends.  Every exception inside a handler is caught by the handler.   *)

_handle_gemini_edit_image(content) ==
    CASE content = "not_json" -> [ret |-> FALSE, sent |-> 0]
      [] content \in {"obj_path", "obj_url"} -> [ret |-> TRUE, sent |-> 1]
      [] OTHER -> [ret |-> FALSE, sent |-> 0]

_handle_sd_image_gen(content) ==
    CASE content = "not_json" -> [ret |-> FALSE, sent |-> 0]
      [] content \in {"list_path", "list_url"} -> [ret |-> TRUE, sent |-> 1]
      [] OTHER -> [ret |-> FALSE, sent |-> 0]

_handle_openapi_speech(content) ==
    CASE content = "not_json" -> [ret |-> FALSE, sent |-> 0]
      [] content = "list_path" -> [ret |-> TRUE, sent |-> 1]
      [] OTHER -> [ret |-> FALSE, sent |-> 0]

\* Mutant: a tool name with no known prefix gets the image handler.
handler_function_Any(tool_name) ==
    IF StartsWith(tool_name, GEMINI_EDIT_IMAGE_PREFIX) THEN "gemini_edit_image"
    ELSE IF StartsWith(tool_name, OPENAPI_SPEECH_PREFIX) THEN "openapi_speech"
    ELSE "sd_image_gen"

\* The handler chosen for a tool name (tool_adapter.py 244-253).
handler_function(tool_name) ==
    IF StartsWith(tool_name, GEMINI_EDIT_IMAGE_PREFIX) THEN "gemini_edit_image"
    ELSE IF StartsWith(tool_name, SD_IMAGE_GEN_PREFIX) THEN "sd_image_gen"
    ELSE IF StartsWith(tool_name, OPENAPI_SPEECH_PREFIX) THEN "openapi_speech"
    ELSE NONE

CallHandler(h, content) ==
    CASE h = "gemini_edit_image" -> _handle_gemini_edit_image(content)
      [] h = "sd_image_gen" -> _handle_sd_image_gen(content)
      [] h = "openapi_speech" -> _handle_openapi_speech(content)

-----------------------------------------------------------------------------
(* The backward scan of process_tool_response_from_history.                *)

\* A tool entry with a tool name and a non-empty string content (226-237).
IsCompleteToolEntry(e) ==
    /\ e.role = "tool"
    /\ "tool_call_id" \in e.keys
    /\ "content" \in e.keys
    /\ e.tool_call_id # <<>>
    /\ e.content # ""

\* Mutant: the check of line 240 is lost.
IsProcessed_Never(original_index, processed) == FALSE

\* Line 240: an index already processed is skipped and the scan goes on.
IsProcessed(original_index, processed) == original_index \in processed

\* Mutant: the scan ends at the first index already processed.
StopsAtProcessed_Always == TRUE

\* Lines 240-242: after an index already processed the loop continues with
\* the next older entry.
StopsAtProcessed == FALSE

\* Mutant: the index is marked only when the handler reports success.
MarksProcessed_OnlySuccess(processed_successfully) ==
    processed_successfully = TRUE

\* Mutant: no index is marked.
MarksProcessed_Never(processed_successfully) == FALSE

\* Line 265: the index is marked whatever the handler returned.
MarksProcessed(processed_successfully) == processed_successfully \in BOOLEAN

\* Mutant: the return of line 273 is lost and the loop goes on.
ReturnsAfterHandler_Never == FALSE

\* Line 273: the function returns right after the first handler call.
ReturnsAfterHandler == TRUE

\* _save_processed_state: the state file is overwritten wholesale with the
\* in-memory state.
_save_processed_state(indices, lengths) ==
    [exists |-> TRUE, corrupt |-> FALSE, indices |-> indices,
     lengths |-> lengths]

\* Lines 204-205, 210-211, 268-269: saved only by an instance that has the
\* method.
SaveIfPresent(st) ==
    IF "_save_processed_state" \in attrs
        THEN [st EXCEPT !.store = _save_processed_state(st.indices, st.lengths)]
        ELSE st

\* Mutant: the scan goes from the oldest entry forward.
OriginalIndex_Forward(current_history_length, i) == i

\* Line 221: the index iteration i looks at, the most recent entry first.
OriginalIndex(current_history_length, i) == current_history_length - 1 - i

\* The loop of lines 220-275 from iteration i on.  st carries the dicts,
\* the store, the number of messages sent and the indices handed to a
\* handler.
RECURSIVE ScanLoop(_, _, _, _)
ScanLoop(session_id, history_list, i, st) ==
    IF i >= Len(history_list) THEN st
    ELSE LET original_index == OriginalIndex(Len(history_list), i)
             message_entry == history_list[original_index + 1]
             h == handler_function(message_entry.tool_call_id)
         IN  IF ~IsCompleteToolEntry(message_entry)
                 THEN ScanLoop(session_id, history_list, i + 1, st)
             ELSE IF IsProcessed(original_index, st.indices[session_id])
                 THEN IF StopsAtProcessed THEN st
                      ELSE ScanLoop(session_id, history_list, i + 1, st)
             ELSE IF h = NONE
                 THEN ScanLoop(session_id, history_list, i + 1, st)
             ELSE
                 LET res == CallHandler(h, message_entry.content)
                     called == [st EXCEPT !.sent = @ + res.sent,
                                          !.handed = @ \cup {original_index}]
                     marked ==
                         IF MarksProcessed(res.ret)
                             THEN SaveIfPresent(
                                 [called EXCEPT !.indices[session_id] =
                                                    @ \cup {original_index}])
                             ELSE called
                 IN  IF ReturnsAfterHandler THEN marked
                     ELSE ScanLoop(session_id, history_list, i + 1, marked)

\* Mutant: a shorter history is not taken for a reset.
IsReset_Never(last_known_length, current_history_length) == FALSE

\* Lines 201-205: the reset check.
IsReset(last_known_length, current_history_length) ==
    last_known_length # -1 /\ current_history_length < last_known_length

\* Lines 191-211: the state after the reset check and the length update.
BeforeScan(session_id, history_list, st) ==
    LET current_history_length == Len(history_list)
        last_known_length ==
            Get(st.lengths, session_id, -1)
        \* line 194: setdefault
        st1 == IF session_id \in DOMAIN st.indices THEN st
               ELSE [st EXCEPT !.indices = Put(@, session_id, {})]
        st2 == IF IsReset(last_known_length, current_history_length)
                   THEN SaveIfPresent(
                       [st1 EXCEPT !.indices = Put(@, session_id, {})])
                   ELSE st1
    IN  IF Get(st2.lengths, session_id, -2) # current_history_length
            THEN SaveIfPresent(
                [st2 EXCEPT !.lengths =
                     Put(@, session_id, current_history_length)])
            ELSE st2

\* Lines 191-277, for a history that parsed to a list.
ScanHistory(session_id, history_list, st) ==
    LET st3 == BeforeScan(session_id, history_list, st)
    IN  IF Len(history_list) = 0 THEN st3
        ELSE ScanLoop(session_id, history_list, 0, st3)

\* Mutant: the empty-history path records the length and clears nothing.
EmptyConversation_KeepsIndices(session_id, st) ==
    [st EXCEPT !.lengths = Put(@, session_id, 0)]

\* Lines 172-179: no conversation, or a history that is None or empty.
EmptyConversation(session_id, st) ==
    LET cleared ==
            IF Get(st.lengths, session_id, 0) > 0
                THEN [st EXCEPT !.indices = Put(@, session_id, {})]
                ELSE st
    IN  [cleared EXCEPT !.lengths = Put(@, session_id, 0)]

\* The instance carries both state attributes (lines 159-162).
HasTracking ==
    /\ "session_processed_indices" \in attrs
    /\ "session_last_history_length" \in attrs

\* One call for an event whose current conversation id is session_id
\* (NONE: the event has no current conversation).
process_tool_response_from_history(session_id) ==
    LET st0 == [indices |-> session_processed_indices,
                lengths |-> session_last_history_length,
                store |-> store, sent |-> 0, handed |-> {}]
    IN  IF ~HasTracking THEN st0
        ELSE IF session_id = NONE THEN st0
        ELSE IF conv[session_id].kind = "none"
            THEN EmptyConversation(session_id, st0)
        ELSE IF conv[session_id].kind = "bad" THEN st0
        ELSE ScanHistory(session_id, conv[session_id].list, st0)

-----------------------------------------------------------------------------
(* Text.  A Python str is a sequence of one-character strings; offsets     *)
(* are Python's (0-based, end exclusive).                                  *)

\* \s of the re module and the characters str.strip() removes
Whitespace == {" ", "\t", "\n", "\r", "\f"}

\* The grave accent, which a TLA+ string cannot hold, by name.
GRAVE == "grave"

\* The characters the classes of url_pattern and path_pattern exclude.
Terminators ==
    Whitespace \cup {"\"", "'", GRAVE, "<", ">", "(", ")", "[", "]", "{", "}"}

\* [a-zA-Z]
Letters ==
    {"a", "b", "c", "d", "e", "f", "g", "h", "i", "j", "k", "l", "m", "n",
     "o", "p", "q", "r", "s", "t", "u", "v", "w", "x", "y", "z",
     "A", "B", "C", "D", "E", "F", "G", "H", "I", "J", "K", "L", "M", "N",
     "O", "P", "Q", "R", "S", "T", "U", "V", "W", "X", "Y", "Z"}

\* The character at offset i, "" past the end.
At(t, i) == IF i >= 0 /\ i < Len(t) THEN t[i + 1] ELSE ""

\* t[a:b]
Slice(t, a, b) == IF a >= b THEN <<>> ELSE SubSeq(t, a + 1, b)

\* The literal lit stands at offset i of t.
HasAt(t, i, lit) ==
    /\ i + Len(lit) <= Len(t)
    /\ SubSeq(t, i + 1, i + Len(lit)) = lit

StartsWithStr(t, lit) == HasAt(t, 0, lit)

EndsWithStr(t, lit) ==
    Len(t) >= Len(lit) /\ HasAt(t, Len(t) - Len(lit), lit)

UpperCase ==
    <<"A", "B", "C", "D", "E", "F", "G", "H", "I", "J", "K", "L", "M", "N",
      "O", "P", "Q", "R", "S", "T", "U", "V", "W", "X", "Y", "Z">>

LowerCase ==
    <<"a", "b", "c", "d", "e", "f", "g", "h", "i", "j", "k", "l", "m", "n",
      "o", "p", "q", "r", "s", "t", "u", "v", "w", "x", "y", "z">>

\* str.lower(), character by character
LowerChar(c) ==
    IF \E i \in 1..Len(UpperCase) : UpperCase[i] = c
        THEN LowerCase[CHOOSE i \in 1..Len(UpperCase) : UpperCase[i] = c]
        ELSE c

Lower(t) == [i \in 1..Len(t) |-> LowerChar(t[i])]

RECURSIVE LStrip(_)
LStrip(t) ==
    IF t # <<>> /\ Head(t) \in Whitespace THEN LStrip(Tail(t)) ELSE t

RECURSIVE RStrip(_)
RStrip(t) ==
    IF t # <<>> /\ t[Len(t)] \in Whitespace
        THEN RStrip(SubSeq(t, 1, Len(t) - 1))
        ELSE t

\* Mutant: only leading whitespace is removed.
Strip_LeftOnly(t) == LStrip(t)

\* str.strip()
Strip(t) == RStrip(LStrip(t))

-----------------------------------------------------------------------------
(* The two patterns of main.py 75-76 and re.finditer.                      *)

\* The class [^...] of both patterns.
Allowed(c) == c # "" /\ c \notin Terminators

\* The end of the run of allowed characters that starts at offset j.
RECURSIVE RunEnd(_, _)
RunEnd(t, j) == IF Allowed(At(t, j)) THEN RunEnd(t, j + 1) ELSE j

\* [...]+ at offset j: the end of the match, -1 when there is none.
BodyEnd(t, j) == IF Allowed(At(t, j)) THEN RunEnd(t, j) ELSE -1

\* url_pattern, (?:https?:)?// and a run of allowed characters, tried at
\* offset i: the end of the match, -1 when there is none.
url_pattern(t, i) ==
    LET https == IF HasAt(t, i, <<"h", "t", "t", "p", "s", ":", "/", "/">>)
                     THEN BodyEnd(t, i + 8) ELSE -1
        http == IF HasAt(t, i, <<"h", "t", "t", "p", ":", "/", "/">>)
                    THEN BodyEnd(t, i + 7) ELSE -1
        bare == IF HasAt(t, i, <<"/", "/">>) THEN BodyEnd(t, i + 2) ELSE -1
    IN  IF https # -1 THEN https ELSE IF http # -1 THEN http ELSE bare

\* path_pattern, a drive letter with colon and backslash or one slash, and
\* a run of allowed characters, tried at offset i.
path_pattern(t, i) ==
    LET drive == IF At(t, i) \in Letters /\ At(t, i + 1) = ":"
                        /\ At(t, i + 2) = "\\"
                     THEN BodyEnd(t, i + 3) ELSE -1
        slash == IF At(t, i) = "/" THEN BodyEnd(t, i + 1) ELSE -1
    IN  IF drive # -1 THEN drive ELSE slash

PatternAt(pattern, t, i) ==
    IF pattern = "url" THEN url_pattern(t, i) ELSE path_pattern(t, i)

\* list(pattern.finditer(t)) from offset i on: leftmost matches that do not
\* overlap, each [start, end).
RECURSIVE finditer(_, _, _)
finditer(pattern, t, i) ==
    IF i >= Len(t) THEN <<>>
    ELSE LET e == PatternAt(pattern, t, i)
         IN  IF e # -1
                 THEN <<[start |-> i, end |-> e]>> \o finditer(pattern, t, e)
                 ELSE finditer(pattern, t, i + 1)

\* match.group(0)
Group(t, m) == Slice(t, m.start, m.end)

-----------------------------------------------------------------------------
(* Python dicts that are iterated: a sequence of [key, val] in insertion   *)
(* order.                                                                  *)

RECURSIVE KeyIndex(_, _, _)
KeyIndex(d, k, i) ==
    IF i > Len(d) THEN 0
    ELSE IF d[i].key = k THEN i
    ELSE KeyIndex(d, k, i + 1)

Values(d) == [i \in 1..Len(d) |-> d[i].val]

\* The sort key of lines 297 and 312: m.start() of a match, and of an item
\* the start of its original match.
StartOf(x) == IF "original" \in DOMAIN x THEN x.original.start ELSE x.start

\* x put into a sorted list behind every element whose key is not greater.
RECURSIVE InsertByStart(_, _)
InsertByStart(done, x) ==
    IF done = <<>> THEN <<x>>
    ELSE IF StartOf(x) < StartOf(Head(done)) THEN <<x>> \o done
    ELSE <<Head(done)>> \o InsertByStart(Tail(done), x)

\* Mutant: the list is left in the order it has.
SortedByStart_Unsorted(ms) == ms

\* sorted(ms, key=start): stable.
RECURSIVE SortedByStart(_)
SortedByStart(ms) ==
    IF ms = <<>> THEN <<>>
    ELSE InsertByStart(SortedByStart(SubSeq(ms, 1, Len(ms) - 1)), ms[Len(ms)])

-----------------------------------------------------------------------------
(* The plugin instance and the environment.                                *)

\* The attributes ToolCallNotifierPlugin.__init__ sets that the adapter
\* reads: of the state attributes it sets none.
InitAttrs == {"processed_tool_call_ids"}

\* A plugin instance as tool_adapter.py expects it: with the two state
\* dicts, with or without the save method.
TrackedAttrs ==
    { InitAttrs \cup {"session_processed_indices",
                      "session_last_history_length"} \cup m :
        m \in {{}, {"_save_processed_state"}} }

NoTrigger ==
    [sid |-> "-", sent |-> 0, handed |-> {}, pre_idx |-> {}, pre_len |-> -1,
     nth |-> 0, prev |-> {}]

NoStore ==
    [exists |-> FALSE, corrupt |-> FALSE, indices |-> EmptyDict,
     lengths |-> EmptyDict]

\* A state file whose bytes do not parse; indices and lengths are what a
\* reader that does not validate would take from it.
CorruptStore ==
    [exists |-> TRUE, corrupt |-> TRUE,
     indices |-> Put(EmptyDict, "s1", {0}),
     lengths |-> Put(EmptyDict, "s1", 1)]

TotalLen ==
    LET n(s) == Len(conv[s].list)
    IN  n("s1") + n("s2")

\* The context of a request before the conversation has any entry.
NoContexts == [kind |-> "none", list |-> <<>>]

\* No LLM request is being handled.
NoRequest ==
    /\ req = [contexts |-> NoContexts, prompt |-> <<>>]
    /\ segs = <<>>
    /\ cfg = [enable_multimodal_processing |-> FALSE, temp_media_dir |-> TRUE]
    /\ quote = "no_reply"
    /\ during = "nothing"
    /\ downloads = <<>>
    /\ req0 = req
    /\ rcalls = 0

\* The triggers that can be in progress at the same time.
Triggers == {1, 2}

\* A trigger that has not begun.
Idle == [pc |-> "idle", idx |-> -1, handed |-> {}]

\* No trigger is in progress.
NoRunning == running = [t \in Triggers |-> Idle]

\* The media tool is not being called.
NoTool ==
    /\ tool_env = [gemini_api_key |-> FALSE, temp_media_dir |-> TRUE,
                   lookup |-> "no_reply", download |-> "ok", stat |-> "ok",
                   file_size |-> 0, base64 |-> TRUE, api |-> "text",
                   unlink |-> "ok"]
    /\ tool_segs = <<>>
    /\ tool_results = <<>>
    /\ tool_calls = <<>>
    /\ tool_done = FALSE
    /\ temp_files = {}

\* No LLM response is being handled.
NoResponse ==
    /\ resp = [role |-> "assistant", tools_call_name |-> <<>>,
               completion_text |-> <<>>]
    /\ event_flag = FALSE
    /\ outbox = <<>>
    /\ fs = {}
    /\ orig = <<>>
    /\ calls = 0

EnvInit ==
    /\ session_processed_indices = EmptyDict
    /\ session_last_history_length = EmptyDict
    /\ store = NoStore
    /\ conv = [s \in Sessions |-> NoHistory]
    /\ last = NoTrigger
    /\ handed = [s \in Sessions |-> EmptyDict]
    /\ grown = [s \in Sessions |-> TRUE]
    /\ restarts = 0

\* The state after ToolCallNotifierPlugin.__init__.
Init ==
    /\ attrs = InitAttrs
    /\ EnvInit
    /\ NoResponse
    /\ NoRequest
    /\ NoTool
    /\ NoRunning

\* The adapter applied to an instance that carries the state attributes.
InitTracked ==
    /\ attrs \in TrackedAttrs
    /\ EnvInit
    /\ NoResponse
    /\ NoRequest
    /\ NoTool
    /\ NoRunning

\* The instance that carries the state attributes and saves its state.
InitSaving ==
    /\ InitTracked
    /\ "_save_processed_state" \in attrs

\* handle_message_sent_for_tool_response: one after-message-sent trigger.
handle_message_sent_for_tool_response(sid) ==
    LET st == process_tool_response_from_history(sid)
        counted ==
            [p \in (DOMAIN handed[sid]) \cup st.handed |->
                LET c == Get(handed[sid], p, 0) + (IF p \in st.handed THEN 1 ELSE 0)
                IN  IF c > 2 THEN 2 ELSE c]
    IN  /\ session_processed_indices' = st.indices
        /\ session_last_history_length' = st.lengths
        /\ store' = st.store
        /\ last' = [sid |-> sid, sent |-> st.sent, handed |-> st.handed,
                    pre_idx |-> Get(session_processed_indices, sid, {}),
                    pre_len |-> Get(session_last_history_length, sid, -1),
                    nth |-> IF last.sid = sid THEN 2 ELSE 1,
                    prev |-> IF last.sid = sid THEN last.handed ELSE {}]
        /\ handed' = IF sid \in Sessions /\ grown[sid]
                         THEN [handed EXCEPT ![sid] = counted]
                         ELSE handed
        /\ UNCHANGED <<attrs, conv, grown, restarts, responseVars, requestVars, toolVars, triggerVars>>

\* The host appends an entry to a conversation's history.
AppendEntry(s, e) ==
    /\ TotalLen < MaxHist
    /\ conv[s].kind # "bad"
    /\ conv' = [conv EXCEPT ![s] = ListOf(Append(conv[s].list, e))]
    /\ last' = NoTrigger
    /\ UNCHANGED <<attrs, session_processed_indices,
                   session_last_history_length, store, handed, grown,
                   restarts, responseVars, requestVars, toolVars, triggerVars>>

\* The host replaces a conversation's history: a reset to nothing or to the
\* empty list, or text that does not parse.
ResetHistory(s, h) ==
    /\ h # conv[s]
    /\ conv' = [conv EXCEPT ![s] = h]
    /\ last' = NoTrigger
    /\ grown' = [grown EXCEPT ![s] = @ /\ conv[s].list = <<>> /\ h.kind # "bad"]
    /\ handed' = IF grown'[s] THEN handed
                  ELSE [handed EXCEPT ![s] = EmptyDict]
    /\ UNCHANGED <<attrs, session_processed_indices,
                   session_last_history_length, store, restarts,
                   responseVars, requestVars, toolVars, triggerVars>>

\* The host compacts a conversation's history: the oldest entry is dropped.
CompactHistory(s) ==
    /\ conv[s].list # <<>>
    /\ conv' = [conv EXCEPT ![s] = ListOf(Tail(conv[s].list))]
    /\ last' = NoTrigger
    /\ grown' = [grown EXCEPT ![s] = FALSE]
    /\ handed' = [handed EXCEPT ![s] = EmptyDict]
    /\ UNCHANGED <<attrs, session_processed_indices,
                   session_last_history_length, store, restarts,
                   responseVars, requestVars, toolVars, triggerVars>>

\* What happens to the state file while the process is stopped.
FileFates == {"kept", "deleted", "damaged"}

FileAtStart(file) ==
    CASE file = "kept" -> store
      [] file = "deleted" -> NoStore
      [] file = "damaged" -> CorruptStore

\* A constructor that takes the state from the file as it finds it.
RestartOn_Trusting(file) ==
    /\ restarts < MaxRestarts
    /\ attrs' = InitAttrs
    /\ store' = FileAtStart(file)
    /\ session_processed_indices' = store'.indices
    /\ session_last_history_length' = store'.lengths
    /\ last' = NoTrigger
    /\ restarts' = restarts + 1
    /\ UNCHANGED <<conv, handed, grown, responseVars, requestVars, toolVars, triggerVars>>

\* The process stops and the plugin is constructed again: __init__ builds
\* a new instance; nothing is read from the state file, whatever it holds.
RestartOn(file) ==
    /\ restarts < MaxRestarts
    /\ attrs' = InitAttrs
    /\ store' = FileAtStart(file)
    /\ session_processed_indices' = EmptyDict
    /\ session_last_history_length' = EmptyDict
    /\ last' = NoTrigger
    /\ restarts' = restarts + 1
    /\ UNCHANGED <<conv, handed, grown, responseVars, requestVars, toolVars, triggerVars>>

\* A restart that leaves the state file alone.
Restart == RestartOn("kept")

-----------------------------------------------------------------------------
(* on_llm_response_handler: media extraction and segmented sending.        *)

\* The extensions of _is_media, line 354.
MediaExtensions ==
    { <<".", "j", "p", "g">>, <<".", "j", "p", "e", "g">>,
      <<".", "p", "n", "g">>, <<".", "g", "i", "f">>,
      <<".", "m", "p", "4">>, <<".", "m", "o", "v">>,
      <<".", "a", "v", "i">>, <<".", "w", "a", "v">>,
      <<".", "p", "d", "f">>, <<".", "d", "o", "c">>,
      <<".", "d", "o", "c", "x">>, <<".", "t", "x", "t">> }

HasExtension(path_or_url, exts) ==
    LET lower == Lower(path_or_url)
    IN  \E ext \in exts : EndsWithStr(lower, ext)

IsHttp(path_or_url) ==
    LET lower == Lower(path_or_url)
    IN  \/ StartsWithStr(lower, <<"h", "t", "t", "p", ":">>)
        \/ StartsWithStr(lower, <<"h", "t", "t", "p", "s", ":">>)

\* Mutant: a local path with a listed extension is media without a look at
\* the disk.
_is_media_Unchecked(path_or_url) ==
    /\ HasExtension(path_or_url, MediaExtensions)
    /\ \/ StartsWithStr(path_or_url, <<"/">>)
       \/ /\ At(path_or_url, 0) \in Letters
          /\ At(path_or_url, 1) = ":"
          /\ At(path_or_url, 2) = "\\"
       \/ IsHttp(path_or_url)

\* _is_media, lines 353-361; os.path.exists is membership in fs.
_is_media(path_or_url) ==
    IF ~HasExtension(path_or_url, MediaExtensions) THEN FALSE
    ELSE IF \/ StartsWithStr(path_or_url, <<"/">>)
            \/ /\ At(path_or_url, 0) \in Letters
               /\ At(path_or_url, 1) = ":"
               /\ At(path_or_url, 2) = "\\"
        THEN path_or_url \in fs
    ELSE IsHttp(path_or_url)

\* _create_media_segment, lines 363-378: the kind of the segment built.
_create_media_segment(path_or_url) ==
    IF HasExtension(path_or_url, {<<".", "j", "p", "g">>,
           <<".", "j", "p", "e", "g">>, <<".", "p", "n", "g">>,
           <<".", "g", "i", "f">>})
        THEN [kind |-> "image", body |-> path_or_url]
    ELSE IF HasExtension(path_or_url, {<<".", "m", "p", "4">>,
           <<".", "m", "o", "v">>, <<".", "a", "v", "i">>})
        THEN [kind |-> "video", body |-> path_or_url]
    ELSE IF HasExtension(path_or_url, {<<".", "w", "a", "v">>})
        THEN [kind |-> "record", body |-> path_or_url]
    ELSE IF HasExtension(path_or_url, {<<".", "p", "d", "f">>,
           <<".", "d", "o", "c">>, <<".", "d", "o", "c", "x">>,
           <<".", "t", "x", "t">>})
        THEN [kind |-> "file", body |-> path_or_url]
    ELSE [kind |-> "plain", body |-> path_or_url]

\* event.plain_result(text)
plain_result(text) == [kind |-> "plain", body |-> text]

\* Lines 294-295: a match replaces the one kept for the same string when it
\* is longer, or as long and starts earlier.
ReplacesKept(match_str, m, kept) ==
    \/ Len(match_str) > (kept.end - kept.start)
    \/ Len(match_str) = (kept.end - kept.start) /\ m.start < kept.start

\* Lines 290-296: temp_matches, filled from ms[i] on.
RECURSIVE CollectMatches(_, _, _, _)
CollectMatches(t, ms, i, temp_matches) ==
    IF i > Len(ms) THEN temp_matches
    ELSE LET match == ms[i]
             match_str == Group(t, match)
             at == KeyIndex(temp_matches, match_str, 1)
         IN  IF at = 0
                 THEN CollectMatches(t, ms, i + 1,
                          Append(temp_matches,
                                 [key |-> match_str, val |-> match]))
             ELSE IF ReplacesKept(match_str, match, temp_matches[at].val)
                 THEN CollectMatches(t, ms, i + 1,
                          [temp_matches EXCEPT ![at].val = match])
             ELSE CollectMatches(t, ms, i + 1, temp_matches)

\* Lines 287-297: all_matches.
AllMatches(t) ==
    LET url_matches == finditer("url", t, 0)
        path_matches == finditer("path", t, 0)
    IN  SortedByStart(
            Values(CollectMatches(t, url_matches \o path_matches, 1, <<>>)))

\* Lines 306-308: a protocol-relative string gets the https scheme.
CorrectedPath(original_match_str) ==
    IF StartsWithStr(original_match_str, <<"/", "/">>)
        THEN <<"h", "t", "t", "p", "s", ":">> \o original_match_str
        ELSE original_match_str

\* Mutant: a later match with the same corrected path replaces the item.
KeepsFirstItem_Last(at) == FALSE

\* Line 310: the first item of a corrected path is kept.
KeepsFirstItem(at) == at # 0

\* Lines 303-311: temp_processed_items, filled from all_matches[i] on.
RECURSIVE CollectItems(_, _, _, _)
CollectItems(t, all_matches, i, items) ==
    IF i > Len(all_matches) THEN items
    ELSE LET match_obj == all_matches[i]
             corrected_path == CorrectedPath(Group(t, match_obj))
             at == KeyIndex(items, corrected_path, 1)
             item == [original |-> match_obj,
                      corrected_path |-> corrected_path]
         IN  IF ~_is_media(corrected_path)
                 THEN CollectItems(t, all_matches, i + 1, items)
             ELSE IF KeepsFirstItem(at)
                 THEN CollectItems(t, all_matches, i + 1, items)
             ELSE IF at = 0
                 THEN CollectItems(t, all_matches, i + 1,
                          Append(items, [key |-> corrected_path, val |-> item]))
             ELSE CollectItems(t, all_matches, i + 1,
                      [items EXCEPT ![at].val = item])

\* Lines 303-312: processed_matches.
ProcessedMatches(t) ==
    SortedByStart(Values(CollectItems(t, AllMatches(t), 1, <<>>)))

\* Lines 319-331: the messages sent for processed_matches[i] and the ones
\* behind it, and for the text behind the last one.
RECURSIVE SendSegments(_, _, _, _)
SendSegments(text_to_process, processed_matches, i, last_end) ==
    IF i > Len(processed_matches)
        THEN LET plain_text_after ==
                     Strip(Slice(text_to_process, last_end,
                                 Len(text_to_process)))
             IN  IF plain_text_after # <<>>
                     THEN <<plain_result(plain_text_after)>>
                     ELSE <<>>
    ELSE LET item == processed_matches[i]
             match == item.original
             plain_text_before ==
                 Strip(Slice(text_to_process, last_end, match.start))
         IN  (IF plain_text_before # <<>>
                  THEN <<plain_result(plain_text_before)>>
                  ELSE <<>>)
             \o <<_create_media_segment(item.corrected_path)>>
             \o SendSegments(text_to_process, processed_matches, i + 1,
                             match.end)

\* Mutant: the text of the response is left as it was.
SentinelText_Unchanged(text_to_process) == text_to_process

\* Line 335: what resp.completion_text is replaced with.
SentinelText(text_to_process) == <<" ">>

\* Mutant: the handler goes on to the sending part whatever it found.
NothingToSend_Never(all_matches, processed_matches) == FALSE

\* Lines 299-300 and 314-316: the handler returns when no match was found
\* or no match is media.
NothingToSend(all_matches, processed_matches) ==
    all_matches = <<>> \/ processed_matches = <<>>

\* Mutant: the notifications are sent in the reverse order.
ToolNotifications_Reversed(tools_call_name) ==
    [i \in 1..Len(tools_call_name) |->
        plain_result(<<"calling",
                       tools_call_name[Len(tools_call_name) + 1 - i]>>)]

\* The notifications of lines 280-282, one for each tool name.
ToolNotifications(tools_call_name) ==
    [i \in 1..Len(tools_call_name) |->
        plain_result(<<"calling", tools_call_name[i]>>)]

\* on_llm_response_handler, lines 271-335: one call for the current event.
on_llm_response_handler ==
    /\ calls < MaxCalls
    /\ calls' = calls + 1
    /\ IF event_flag
           THEN UNCHANGED <<resp, event_flag, outbox>>
       ELSE IF resp.role = "tool" /\ resp.tools_call_name # <<>>
           THEN /\ outbox' = outbox \o ToolNotifications(resp.tools_call_name)
                /\ UNCHANGED <<resp, event_flag>>
       ELSE IF resp.role = "assistant" /\ resp.completion_text # <<>>
           THEN LET text_to_process == resp.completion_text
                    processed_matches == ProcessedMatches(text_to_process)
                IN  IF NothingToSend(AllMatches(text_to_process),
                                     processed_matches)
                        THEN UNCHANGED <<resp, event_flag, outbox>>
                        ELSE /\ outbox' = outbox \o
                                    SendSegments(text_to_process,
                                                 processed_matches, 1, 0)
                             /\ event_flag' = TRUE
                             /\ resp' = [resp EXCEPT
                                            !.completion_text =
                                                SentinelText(text_to_process)]
       ELSE UNCHANGED <<resp, event_flag, outbox>>
    /\ UNCHANGED <<fs, orig, adapterVars, requestVars, toolVars, triggerVars>>

\* The pieces the responses of the model are composed of.
A_https_url ==
    <<"h", "t", "t", "p", "s", ":", "/", "/", "h", "/", "a", ".", "p", "n", "g">>

A_http == <<"h", "t", "t", "p", ":">>

A_url == <<"/", "/", "h", "/", "a", ".", "p", "n", "g">>

A_path == <<"/", "a", ".", "p", "n", "g">>

A_drive == <<"C", ":", "\\", "a", ".", "P", "N", "G">>

A_word == <<" ", "x", " ">>

A_pic == <<"p", "i", "c", ".", "j", "p", "g">>

A_see_pic_now == <<"s", "e", "e", " ">> \o A_pic \o <<" ", "n", "o", "w">>

Atoms == {A_https_url, A_http, A_url, A_path, A_drive, A_word, A_see_pic_now}

\* The number of pieces of a composed text.
RECURSIVE AtomCount(_)
AtomCount(t) ==
    IF t = <<>> THEN 0
    ELSE LET a == CHOOSE x \in Atoms : StartsWithStr(t, x)
         IN  1 + AtomCount(Slice(t, Len(a), Len(t)))

\* The LLM produces the text of an assistant response, piece by piece,
\* before the handler is called.
ComposeResponse(a) ==
    /\ calls = 0
    /\ resp.role = "assistant"
    /\ AtomCount(orig) < MaxAtoms
    /\ orig' = orig \o a
    /\ resp' = [resp EXCEPT !.completion_text = orig']
    /\ UNCHANGED <<event_flag, outbox, fs, calls, adapterVars, requestVars, toolVars, triggerVars>>

\* What exists on the local filesystem: nothing, one of the paths, or all.
Disks == {{}, {A_path}, {A_path, A_drive, A_pic}}

\* An LLM response arrives for a new event; the text of an assistant
\* response is composed next, a tool response comes with its text.
InitResponse ==
    /\ attrs = InitAttrs
    /\ EnvInit
    /\ \E role \in {"assistant", "tool"} :
       \E names \in {<<>>, <<"t1", "t2">>} :
           /\ role = "assistant" => names = <<>>
           /\ \E text \in {<<>>, A_word, A_https_url} :
                  /\ role = "assistant" => text = <<>>
                  /\ resp = [role |-> role, tools_call_name |-> names,
                             completion_text |-> text]
    /\ event_flag = FALSE
    /\ outbox = <<>>
    /\ fs \in Disks
    /\ resp.role = "tool" => fs = {}
    /\ orig = resp.completion_text
    /\ calls = 0
    /\ NoRequest
    /\ NoTool
    /\ NoRunning

NextResponse ==
    \/ \E a \in Atoms : ComposeResponse(a)
    \/ on_llm_response_handler

SpecResponse == InitResponse /\ [][NextResponse]_vars

\* One conversation is driven; the other session id stays unused.
Driven == {"s1"}

Next ==
    \/ \E sid \in Driven \cup {NONE} :
           handle_message_sent_for_tool_response(sid)
    \/ \E s \in Driven, e \in Entries : AppendEntry(s, e)
    \/ \E s \in Driven, h \in {NoHistory, BadHistory, ListOf(<<>>)} :
           ResetHistory(s, h)
    \/ \E s \in Driven : CompactHistory(s)
    \/ Restart

Spec == Init /\ [][Next]_vars

SpecTracked == InitTracked /\ [][Next]_vars

\* The instance with the state attributes, restarted over a state file
\* that is kept, deleted or damaged while the process is stopped.
NextStore ==
    \/ \E sid \in Driven : handle_message_sent_for_tool_response(sid)
    \/ \E s \in Driven, e \in Entries : AppendEntry(s, e)
    \/ \E file \in FileFates : RestartOn(file)

SpecStore == InitTracked /\ [][NextStore]_vars

\* The instance with the state attributes on a history that is only
\* appended to, with after-message-sent triggers that keep arriving.
DeliveryEntries ==
    { ToolEntry(GEMINI_EDIT_IMAGE_PREFIX \o <<"_1">>, "obj_url"),
      ToolEntry(SD_IMAGE_GEN_PREFIX, "not_json"),
      ToolEntry(<<"web_search-query">>, "list_url") }

NextDelivery ==
    \/ handle_message_sent_for_tool_response("s1")
    \/ \E e \in DeliveryEntries : AppendEntry("s1", e)

SpecDelivery ==
    /\ InitSaving
    /\ [][NextDelivery]_vars
    /\ WF_vars(handle_message_sent_for_tool_response("s1"))

\* Two after-message-sent triggers of one session in progress at once.  A
\* coroutine runs without interruption between two awaits; the awaits of
\* process_tool_response_from_history are the reads of the conversation
\* (lines 165, 170) and the handler call (line 258), in which the message
\* is sent.  No lock is taken anywhere in tool_adapter.py.

\* Lines 220-253 up to the handler call: the index of the first complete,
\* unprocessed entry with a registered handler, newest first; -1 when the
\* loop ends without one.
RECURSIVE NextToHand(_, _, _)
NextToHand(history_list, i, processed) ==
    IF i >= Len(history_list) THEN -1
    ELSE LET original_index == OriginalIndex(Len(history_list), i)
             message_entry == history_list[original_index + 1]
         IN  IF ~IsCompleteToolEntry(message_entry)
                 THEN NextToHand(history_list, i + 1, processed)
             ELSE IF IsProcessed(original_index, processed)
                 THEN IF StopsAtProcessed THEN -1
                      ELSE NextToHand(history_list, i + 1, processed)
             ELSE IF handler_function(message_entry.tool_call_id) = NONE
                 THEN NextToHand(history_list, i + 1, processed)
             ELSE original_index

\* Lines 264-273 for the index a handler was called for: the index is
\* marked and the state saved.
AfterHandler(sid, original_index, res, st) ==
    IF MarksProcessed(res.ret)
        THEN SaveIfPresent(
            [st EXCEPT !.indices[sid] = @ \cup {original_index}])
        ELSE st

\* What the handler does for the entry at original_index.
HandlerResult(history_list, original_index) ==
    LET message_entry == history_list[original_index + 1]
    IN  CallHandler(handler_function(message_entry.tool_call_id),
                    message_entry.content)

\* Trigger t runs from the read of the history (line 170) to the await of
\* event.send inside the handler called at line 258, or to its return
\* when nothing is handed or the handler sends nothing (a handler that
\* sends nothing never suspends).
BeginTrigger(t, sid) ==
    /\ running[t].pc = "idle"
    /\ HasTracking
    /\ conv[sid].kind = "list"
    /\ LET st0 == [indices |-> session_processed_indices,
                   lengths |-> session_last_history_length,
                   store |-> store, sent |-> 0, handed |-> {}]
           history_list == conv[sid].list
           st3 == BeforeScan(sid, history_list, st0)
           original_index == NextToHand(history_list, 0, st3.indices[sid])
           suspends == /\ original_index # -1
                       /\ HandlerResult(history_list, original_index).sent > 0
           st4 == IF original_index = -1 \/ suspends THEN st3
                  ELSE AfterHandler(sid, original_index,
                                    HandlerResult(history_list, original_index),
                                    st3)
       IN  /\ session_processed_indices' = st4.indices
           /\ session_last_history_length' = st4.lengths
           /\ store' = st4.store
           /\ running' =
                  [running EXCEPT ![t] =
                      IF original_index = -1
                          THEN [pc |-> "returned", idx |-> -1, handed |-> {}]
                          ELSE [pc |-> IF suspends THEN "in_handler"
                                       ELSE "returned",
                                idx |-> original_index,
                                handed |-> {original_index}]]
    /\ UNCHANGED <<attrs, conv, last, handed, grown, restarts, responseVars,
                   requestVars, toolVars>>

\* event.send completes and the handler of trigger t returns: lines
\* 264-273.
FinishTrigger(t, sid) ==
    /\ running[t].pc = "in_handler"
    /\ LET original_index == running[t].idx
           st == [indices |-> session_processed_indices,
                  lengths |-> session_last_history_length,
                  store |-> store, sent |-> 0, handed |-> {original_index}]
           marked == AfterHandler(sid, original_index,
                                  HandlerResult(conv[sid].list, original_index),
                                  st)
       IN  /\ session_processed_indices' = marked.indices
           /\ session_last_history_length' = marked.lengths
           /\ store' = marked.store
    /\ running' = [running EXCEPT ![t].pc = "returned"]
    /\ UNCHANGED <<attrs, conv, last, handed, grown, restarts, responseVars,
                   requestVars, toolVars>>

NextConcurrent ==
    \/ \E t \in Triggers : BeginTrigger(t, "s1")
    \/ \E t \in Triggers : FinishTrigger(t, "s1")
    \/ \E e \in DeliveryEntries : AppendEntry("s1", e)

SpecConcurrent == InitTracked /\ [][NextConcurrent]_vars

\* The instance with the state attributes on a history that is emptied
\* once and only appended to before and after, with triggers that keep
\* arriving.
RegrowEntries ==
    { ToolEntry(GEMINI_EDIT_IMAGE_PREFIX \o <<"_1">>, "obj_url"),
      ToolEntry(<<"web_search-query">>, "list_url") }

NextRegrow ==
    \/ handle_message_sent_for_tool_response("s1")
    \/ \E e \in RegrowEntries : AppendEntry("s1", e)
    \/ grown["s1"] /\ ResetHistory("s1", ListOf(<<>>))

SpecRegrow ==
    /\ InitSaving
    /\ [][NextRegrow]_vars
    /\ WF_vars(handle_message_sent_for_tool_response("s1"))

\* The instance with the state attributes serving two conversations.
NextIsolation ==
    \/ \E sid \in Sessions : handle_message_sent_for_tool_response(sid)
    \/ \E s \in Sessions :
           AppendEntry(s, ToolEntry(GEMINI_EDIT_IMAGE_PREFIX \o <<"_1">>,
                                    "obj_url"))
    \/ \E s \in Sessions : ResetHistory(s, NoHistory)

SpecIsolation == InitSaving /\ [][NextIsolation]_vars

-----------------------------------------------------------------------------
(* Vocabulary of the claims.                                               *)

\* processedPositions and lastHistoryLength of a session (-1: none recorded)
Processed(s) == Get(session_processed_indices, s, {})

LastLength(s) == Get(session_last_history_length, s, -1)

\* The 0-based positions of the registered tool entries of a history.
Registered(h) ==
    { p \in 0..(Len(h) - 1) :
        /\ IsCompleteToolEntry(h[p + 1])
        /\ handler_function(h[p + 1].tool_call_id) # NONE }

\* A registered entry whose payload its handler turns into a message.
Usable(e) == CallHandler(handler_function(e.tool_call_id), e.content).sent = 1

\* A trigger for s has just returned and s has a history list.
Triggered(s) == last.sid = s /\ conv[s].kind = "list"

\* The history holds one registered entry, usable, at position p.
OneRegisteredAt(s, p) ==
    /\ Registered(conv[s].list) = {p}
    /\ Usable(conv[s].list[p + 1])

-----------------------------------------------------------------------------
(* Claims.                                                                 *)

\* C1 (as claimed): with one registered usable tool entry at position p that
\* is not in processedPositions, one after-message-sent trigger sends
\* exactly one message and puts p into processedPositions; a second trigger
\* on the unchanged history sends nothing.
C1_OneTriggerDelivers ==
    \A s \in Sessions : \A p \in 0..(Len(conv[s].list) - 1) :
        (Triggered(s) /\ OneRegisteredAt(s, p)) =>
            /\ (last.nth = 1 /\ p \notin last.pre_idx) =>
                   (last.sent = 1 /\ p \in Processed(s))
            /\ last.nth = 2 => last.sent = 0

\* C1 on an instance that carries the state attributes (not what __init__
\* builds): the same statement.
C1_OnTrackedInstance == HasTracking => C1_OneTriggerDelivers

\* C2: while a history has only been appended to, no position of it is
\* handed to a tool-result handler more than once.
C2_NoPositionHandedTwice ==
    \A s \in Sessions :
        grown[s] => \A p \in DOMAIN handed[s] : handed[s][p] <= 1

\* C2 witness: a position was handed once and a later trigger on the same
\* history handed nothing.
C2_Witness ==
    \E s \in Sessions :
        /\ grown[s] /\ last.sid = s /\ last.nth = 2 /\ last.handed = {}
        /\ \E p \in DOMAIN handed[s] : handed[s][p] = 1

\* C3: one trigger calls at most one handler and sends at most one message.
C3_AtMostOneHandlerPerTrigger ==
    Cardinality(last.handed) <= 1 /\ last.sent <= 1

\* C3 witness: a trigger that found two unprocessed registered entries and
\* handed one.
C3_Witness ==
    \E s \in Sessions :
        /\ Triggered(s)
        /\ Cardinality(Registered(conv[s].list) \ last.pre_idx) >= 2
        /\ Cardinality(last.handed) = 1
        /\ last.sent = 1

\* The history length a trigger for s observes (0 for no history).
Observed(s) == Len(conv[s].list)

\* C4: a trigger that observes a length L below the recorded
\* lastHistoryLength drops every position recorded before it (what is in
\* processedPositions afterwards was put there by this trigger's scan) and
\* records L.
C4_ResetDetection ==
    \A s \in Sessions :
        (last.sid = s /\ conv[s].kind # "bad" /\ HasTracking
            /\ Observed(s) < last.pre_len) =>
            /\ Processed(s) \subseteq last.handed
            /\ LastLength(s) = Observed(s)

\* C4 witness: a trigger met a shorter, non-empty history with positions
\* on record.
C4_Witness ==
    \E s \in Sessions :
        /\ Triggered(s) /\ HasTracking
        /\ Observed(s) < last.pre_len /\ Observed(s) > 0
        /\ last.pre_idx # {}
        /\ Processed(s) = {}

\* C5: every recorded position is below the recorded length.
C5_PositionsBelowLength ==
    \A s \in Sessions : \A p \in Processed(s) : p < LastLength(s)

\* C5 witness: positions are on record after a trigger that met a shorter
\* history.
C5_Witness ==
    \E s \in Sessions :
        /\ Triggered(s) /\ Observed(s) < last.pre_len
        /\ last.pre_idx # {} /\ Processed(s) # {}

\* C6 (as claimed): when a trigger returns on an instance that has the save
\* method, the state file equals the in-memory state.
C6_StoreEqualsMemory ==
    (last.sid \in Sessions /\ HasTracking
        /\ "_save_processed_state" \in attrs) =>
        store = _save_processed_state(session_processed_indices,
                                      session_last_history_length)

\* C7 (as claimed): after the plugin is constructed again, a trigger on a
\* history that was only appended to hands no position a second time, and
\* while registered entries are left that were never handed to a handler
\* the trigger hands one.
C7_DeliverySurvivesRestart ==
    \A s \in Sessions :
        (restarts > 0 /\ Triggered(s) /\ grown[s]) =>
            /\ \A p \in DOMAIN handed[s] : handed[s][p] <= 1
            /\ (\E p \in Registered(conv[s].list) :
                    Get(handed[s], p, 0) = 0) => last.handed # {}

-----------------------------------------------------------------------------
(* Vocabulary of the claims about on_llm_response_handler.                 *)

\* The first call for an assistant response has been made.
Handled == calls >= 1 /\ resp.role = "assistant"

\* The response was sent in segments.
Segmented == Handled /\ event_flag

\* The media items the extraction yields for the response text.
Items == ProcessedMatches(orig)

IsMediaMessage(m) == m.kind # "plain"

IsTextMessage(m) == m.kind = "plain"

MediaMessages == SelectSeq(outbox, IsMediaMessage)

TextMessages == SelectSeq(outbox, IsTextMessage)

Bodies(ms) == [i \in 1..Len(ms) |-> ms[i].body]

RECURSIVE Concat(_)
Concat(ss) == IF ss = <<>> THEN <<>> ELSE Head(ss) \o Concat(Tail(ss))

\* The tokens of t: the maximal runs of characters neither grammar stops at.
Tokens(t) ==
    { [start |-> a, end |-> RunEnd(t, a)] :
        a \in { i \in 0..(Len(t) - 1) :
                  Allowed(At(t, i)) /\ ~Allowed(At(t, i - 1)) } }

\* A grammar matches the token from its first character on, so that the
\* token as a whole is one candidate.
WholeCandidate(t, tok) ==
    url_pattern(t, tok.start) # -1 \/ path_pattern(t, tok.start) # -1

\* Neither grammar matches anywhere in the token.
NoCandidateIn(t, tok) ==
    \A i \in tok.start..(tok.end - 1) :
        url_pattern(t, i) = -1 /\ path_pattern(t, i) = -1

\* The valid media references of t: the tokens that are one candidate and
\* are classified as media.
References(t) ==
    { tok \in Tokens(t) :
        WholeCandidate(t, tok) /\ _is_media(CorrectedPath(Group(t, tok))) }

\* t holds nothing but plain words and valid, pairwise different media
\* references, each a token of its own.
NonOverlappingReferences(t) ==
    /\ \A tok \in Tokens(t) : tok \in References(t) \/ NoCandidateIn(t, tok)
    /\ \A r1, r2 \in References(t) :
           r1 # r2 =>
               CorrectedPath(Group(t, r1)) # CorrectedPath(Group(t, r2))

\* Offset i of the response text lies in the span of a media item.
Covered(items, i) ==
    \E k \in 1..Len(items) :
        items[k].original.start <= i /\ i < items[k].original.end

\* The end of the uncovered run that starts at offset i.
UncoveredEnd(t, items, i) ==
    CHOOSE e \in (i + 1)..Len(t) :
        /\ e = Len(t) \/ Covered(items, e)
        /\ \A j \in i..(e - 1) : ~Covered(items, j)

\* The maximal runs of t outside the spans of the items, left to right.
RECURSIVE UncoveredRuns(_, _, _)
UncoveredRuns(t, items, i) ==
    IF i >= Len(t) THEN <<>>
    ELSE IF Covered(items, i) THEN UncoveredRuns(t, items, i + 1)
    ELSE LET e == UncoveredEnd(t, items, i)
         IN  <<Slice(t, i, e)>> \o UncoveredRuns(t, items, e)

\* c without the whitespace at its two ends.
Trimmed(c) ==
    LET solid == { i \in 1..Len(c) : c[i] \notin Whitespace }
    IN  IF solid = {} THEN <<>>
        ELSE SubSeq(c, CHOOSE i \in solid : \A j \in solid : i <= j,
                       CHOOSE i \in solid : \A j \in solid : i >= j)

NonEmpty(c) == c # <<>>

\* The trimmed runs outside the spans that are not empty, left to right.
TrimmedRuns(t, items) ==
    LET runs == UncoveredRuns(t, items, 0)
    IN  SelectSeq([i \in 1..Len(runs) |-> Trimmed(runs[i])], NonEmpty)

\* Every match either grammar finds in t.
Candidates(t) ==
    LET url_matches == finditer("url", t, 0)
        path_matches == finditer("path", t, 0)
    IN  { url_matches[i] : i \in 1..Len(url_matches) }
            \cup { path_matches[i] : i \in 1..Len(path_matches) }

\* The matches whose corrected path is path_or_url.
Occurrences(t, path_or_url) ==
    { m \in Candidates(t) : CorrectedPath(Group(t, m)) = path_or_url }

Disjoint(m1, m2) == m1.end <= m2.start \/ m2.end <= m1.start

\* t holds a protocol-relative reference and, apart from it, an https
\* reference, both with the corrected path path_or_url, which is media.
HasBothForms(t, path_or_url) ==
    /\ _is_media(path_or_url)
    /\ \E m1, m2 \in Occurrences(t, path_or_url) :
           /\ StartsWithStr(Group(t, m1), <<"/", "/">>)
           /\ StartsWithStr(Group(t, m2),
                            <<"h", "t", "t", "p", "s", ":", "/", "/">>)
           /\ Disjoint(m1, m2)

\* The corrected paths the candidates of t have.
CorrectedPaths(t) == { CorrectedPath(Group(t, m)) : m \in Candidates(t) }

EarliestStart(ms) == CHOOSE a \in { m.start : m \in ms } :
                         \A m \in ms : a <= m.start

-----------------------------------------------------------------------------
(* Claims C8 to C10.                                                       *)

\* C8: for a response text with k valid media references that do not
\* overlap, the extraction yields exactly k media items in the order of
\* their start offsets, and exactly k media messages are sent.
C8_KReferencesKItems ==
    (Handled /\ NonOverlappingReferences(orig)) =>
        LET k == Cardinality(References(orig))
        IN  /\ Len(Items) = k
            /\ \A i, j \in 1..Len(Items) :
                   i < j => StartOf(Items[i]) < StartOf(Items[j])
            /\ Len(MediaMessages) = k

\* C9 as stated: when a response is segmented, the text messages sent,
\* concatenated, are verbatim the text of the response outside the spans of
\* the media items.
C9_VerbatimOutsideText ==
    Segmented =>
        Concat(Bodies(TextMessages)) = Concat(UncoveredRuns(orig, Items, 0))

\* C9 amended: when a response is segmented, the text messages sent are, in
\* order, the runs of the response outside the spans of the media items with
\* the whitespace at both ends of each run removed, runs that are left
\* empty being sent as no message.
C9_TrimmedOutsideText ==
    Segmented => Bodies(TextMessages) = TrimmedRuns(orig, Items)

C9_Witness ==
    /\ Segmented
    /\ Len(TextMessages) = 2
    /\ Concat(Bodies(TextMessages)) # Concat(UncoveredRuns(orig, Items, 0))

\* C10: when the response text holds a protocol-relative reference and an
\* https reference with the same corrected path, exactly one media item has
\* that path, it is the occurrence that starts earliest, and one media
\* message is sent for it.
C10_DedupByCorrectedPath ==
    \A p \in CorrectedPaths(orig) :
        (Handled /\ HasBothForms(orig, p)) =>
            /\ Cardinality({ i \in 1..Len(Items) :
                               Items[i].corrected_path = p }) = 1
            /\ \A i \in 1..Len(Items) :
                   Items[i].corrected_path = p =>
                       Items[i].original.start =
                           EarliestStart(Occurrences(orig, p))
            /\ Cardinality({ i \in 1..Len(MediaMessages) :
                               MediaMessages[i].body = p }) = 1

C10_Witness ==
    /\ Segmented
    /\ HasBothForms(orig, A_https_url)
    /\ \E m1, m2 \in Occurrences(orig, A_https_url) :
           /\ StartsWithStr(Group(orig, m1), <<"/", "/">>)
           /\ Group(orig, m2) = A_https_url
           /\ m1.end < m2.start
    /\ Len(MediaMessages) = 1


-----------------------------------------------------------------------------
(* Claims C11 to C13.                                                      *)

\* C11: after the handler has segmented a response (a media item survived),
\* the response text is the single-space sentinel, the event is flagged as
\* handled, and no message sent is the original full text.
C11_OriginalNotSentAgain ==
    (Handled /\ Items # <<>>) =>
        /\ resp.completion_text = <<" ">>
        /\ event_flag
        /\ \A i \in 1..Len(TextMessages) : TextMessages[i].body # orig

C11_Witness ==
    /\ Handled
    /\ Items # <<>>
    /\ Len(TextMessages) >= 1
    /\ Len(MediaMessages) >= 1

\* C12: when no candidate matches, or no candidate classified as media
\* survives, the handler sends no message, leaves the response text as it
\* was and does not flag the event.
C12_NoMediaNoEffect ==
    (Handled /\ Items = <<>>) =>
        /\ outbox = <<>>
        /\ resp.completion_text = orig
        /\ ~event_flag

\* A candidate was found and none is media.
C12_Witness ==
    /\ Handled
    /\ calls = MaxCalls
    /\ AllMatches(orig) # <<>>
    /\ Items = <<>>

\* C13: for the text "see pic.jpg now" with pic.jpg existing on disk, the
\* extraction yields one item of kind image and three messages are sent:
\* the text "see", the image, the text "now".
C13_SeePicNow ==
    (Handled /\ orig = A_see_pic_now /\ A_pic \in fs) =>
        /\ Len(Items) = 1
        /\ outbox = << plain_result(<<"s", "e", "e">>),
                       [kind |-> "image", body |-> A_pic],
                       plain_result(<<"n", "o", "w">>) >>


-----------------------------------------------------------------------------
(* on_llm_request_handler and _prepare_multimodal_parts: the quoted        *)
(* message is turned into content parts and spliced into req.contexts.     *)
(* A text is a sequence of tokens; a token is a character or a fixed piece *)
(* of a message, so that str.strip() and " ".join act as in the code.      *)

\* str(seg_idx + 1)
IdxStr(i) == <<"1", "2", "3", "4", "5", "6">>[i]

\* {"type": "text", "text": text}
TextPart(text) == [type |-> "text", text |-> text, url |-> <<>>]

\* {"type": "image_url", "image_url": {"url": url}}
ImagePart(url) == [type |-> "image_url", text |-> <<>>, url |-> url]

\* Lines 401 and 419: the placeholder of a failed or skipped download.
DownloadFailedText(i, media_url) ==
    <<"[", "quoted image", IdxStr(i), "download failed", "URL:">>
        \o media_url \o <<"]">>

\* Line 417: the placeholder of a failed encoding.
EncodeFailedText(i, media_url) ==
    <<"[", "quoted image", IdxStr(i), "base64 failed", "URL:">>
        \o media_url \o <<"]">>

\* Lines 414 and 421: the placeholder that carries the URL of an image.
ImageUrlText(i, media_url) ==
    <<"[", "quoted image", IdxStr(i), "URL:">> \o media_url \o <<"]">>

\* Lines 422-425: the placeholder of a voice or video segment.
MediaUrlText(i, seg_type, media_url) ==
    <<"[", IF seg_type = "record" THEN "quoted voice" ELSE "quoted video",
      IdxStr(i), "URL:">> \o media_url
        \o <<"(", IF seg_type = "record" THEN "not transcribed" ELSE "", ")",
             "]">>

\* Mutant: the switch is read as on.
MultimodalEnabled_Always(config) == TRUE

\* Line 383: self.config.get("enable_multimodal_processing", False)
MultimodalEnabled(config) == config.enable_multimodal_processing

\* Mutant: a file is returned whatever the download did.
download_media_AlwaysFile(seg_data) == <<"file">> \o seg_data.url

\* utils.download_media, lines 40-104: the path of the file, or None (the
\* empty value here) when the download failed; every exception is caught.
download_media(seg_data) ==
    IF seg_data.fetch = "download_fails" THEN <<>>
    ELSE <<"file">> \o seg_data.url

\* utils.file_to_base64, lines 132-143: the data, or None when reading or
\* encoding failed.
file_to_base64(seg_data) ==
    IF seg_data.fetch = "encode_fails" THEN <<>> ELSE <<"b64">> \o seg_data.url

\* Line 411: f"data:{mime_type};base64,{base64_data}"
DataUri(base64_data) == <<"data:", "image/jpeg", ";base64,">> \o base64_data

\* Mutant: voice and video segments take the branch of the images.
TreatedAsImage_AnyMedia(seg_type) == seg_type \in {"image", "record", "video"}

\* Line 397: the segments that take the image branch.
TreatedAsImage(seg_type) == seg_type = "image"

\* The loop of lines 390-426 from segment i on: the parts built and the
\* URLs download_media was called with.
RECURSIVE PrepareFrom(_, _, _, _)
PrepareFrom(replied_message_segments, i, parts, called) ==
    IF i > Len(replied_message_segments)
        THEN [parts |-> parts, called |-> called]
    ELSE LET seg_data == replied_message_segments[i]
             seg_type == seg_data.type
             media_url == seg_data.url
             more(ps, cs) ==
                 PrepareFrom(replied_message_segments, i + 1, parts \o ps, cs)
         IN  IF seg_type = "text" /\ seg_data.text # <<>>
                 THEN more(<<TextPart(Strip(seg_data.text))>>, called)
             ELSE IF TreatedAsImage(seg_type) /\ media_url # <<>>
                 THEN IF MultimodalEnabled(cfg)
                          THEN IF ~cfg.temp_media_dir
                                   THEN more(<<TextPart(
                                            DownloadFailedText(i, media_url))>>,
                                            called)
                               ELSE LET downloaded_file ==
                                            download_media(seg_data)
                                        base64_data == file_to_base64(seg_data)
                                        cs == Append(called, media_url)
                                    IN  IF downloaded_file = <<>>
                                            THEN more(<<TextPart(
                                                DownloadFailedText(i,
                                                    media_url))>>, cs)
                                        ELSE IF base64_data = <<>>
                                            THEN more(<<TextPart(
                                                EncodeFailedText(i,
                                                    media_url))>>, cs)
                                        ELSE more(
                                            <<ImagePart(DataUri(base64_data)),
                                              TextPart(ImageUrlText(i,
                                                  media_url))>>, cs)
                          ELSE more(<<TextPart(ImageUrlText(i, media_url))>>,
                                    called)
             ELSE IF seg_type \in {"record", "video"} /\ media_url # <<>>
                 THEN more(<<TextPart(MediaUrlText(i, seg_type, media_url))>>,
                           called)
             ELSE more(<<>>, called)

\* _prepare_multimodal_parts, lines 380-426
_prepare_multimodal_parts(replied_message_segments) ==
    PrepareFrom(replied_message_segments, 1, <<>>, <<>>)


\* The content of a context entry: a string or a list of parts.
StrContent(text) == [kind |-> "str", text |-> text, parts |-> <<>>]

PartsContent(parts) == [kind |-> "parts", text |-> <<>>, parts |-> parts]

\* Line 499: the text in front of the quoted content.
prefix == <<"header:", "\n", "\"\"\"", "\n">>

\* Line 500
suffix == <<"\n", "\"\"\"">>

\* " ".join(ss)
RECURSIVE Join(_)
Join(ss) ==
    IF ss = <<>> THEN <<>>
    ELSE IF Len(ss) = 1 THEN ss[1]
    ELSE ss[1] \o <<" ">> \o Join(Tail(ss))

\* " ".join([s for s in batch if s])
JoinNonEmpty(batch) == Join(SelectSeq(batch, LAMBDA x : x # <<>>))

\* Mutant: the texts of a batch are added one part each.
BatchParts_Unmerged(current_text_batch) ==
    LET texts == SelectSeq(current_text_batch, LAMBDA x : x # <<>>)
    IN  [i \in 1..Len(texts) |-> TextPart(texts[i])]

\* The combined text of a batch, as a list of at most one part (lines
\* 512-516 and 520-523).
BatchParts(current_text_batch) ==
    IF current_text_batch # <<>>
           /\ JoinNonEmpty(current_text_batch) # <<>>
        THEN <<TextPart(JoinNonEmpty(current_text_batch))>>
        ELSE <<>>

\* The loop of lines 508-523 from part i on.
RECURSIVE MergeFrom(_, _, _)
MergeFrom(processed_parts, i, current_text_batch) ==
    IF i > Len(processed_parts) THEN BatchParts(current_text_batch)
    ELSE LET part_data == processed_parts[i]
         IN  IF part_data.type = "text"
                 THEN MergeFrom(processed_parts, i + 1,
                          Append(current_text_batch, Strip(part_data.text)))
             ELSE BatchParts(current_text_batch) \o <<part_data>>
                      \o MergeFrom(processed_parts, i + 1, <<>>)

\* Lines 502-531: the entries built in multimodal mode.
MultimodalQuoted(processed_parts) ==
    LET content_parts_for_llm ==
            (IF Strip(prefix) # <<>> THEN <<TextPart(Strip(prefix))>> ELSE <<>>)
            \o MergeFrom(processed_parts, 1, <<>>)
            \o (IF Strip(suffix) # <<>> THEN <<TextPart(Strip(suffix))>>
                                       ELSE <<>>)
    IN  IF content_parts_for_llm # <<>>
            THEN <<[role |-> "user",
                    content |-> PartsContent(content_parts_for_llm)]>>
            ELSE <<>>

\* Lines 534-542: the text of each part in plain-text mode.
AllTextFromParts(processed_parts) ==
    [i \in 1..Len(processed_parts) |->
        IF processed_parts[i].type = "text"
            THEN Strip(processed_parts[i].text)
            ELSE <<"[", "quoted image", "URL:">> \o processed_parts[i].url
                     \o <<"]">>]

\* Lines 532-552: the entries built in plain-text mode.
FlatQuoted(processed_parts) ==
    LET full_quoted_text ==
            Strip(JoinNonEmpty(AllTextFromParts(processed_parts)))
    IN  IF full_quoted_text # <<>>
            THEN <<[role |-> "user",
                    content |-> StrContent(prefix \o full_quoted_text
                                               \o suffix)]>>
            ELSE <<>>

\* set_multimodal_status, lines 580-609, for a valid status word: the
\* switch is set in the configuration.
set_multimodal_status(config, new_status) ==
    [config EXCEPT !.enable_multimodal_processing = new_status]

\* The configuration line 490 reads: the handler is suspended at every
\* download_media of line 403, and a /tps sm off that is handled meanwhile
\* sets the switch.
ConfigAtSplice ==
    IF during = "sm_off" /\ _prepare_multimodal_parts(segs).called # <<>>
        THEN set_multimodal_status(cfg, FALSE)
        ELSE cfg

\* Mutant: multimodal mode is chosen whenever the switch is on.
ShouldFormMultimodal_FlagOnly(processed_parts) ==
    MultimodalEnabled(ConfigAtSplice)

\* Line 494: multimodal mode is chosen.
ShouldFormMultimodal(processed_parts) ==
    /\ MultimodalEnabled(ConfigAtSplice)
    /\ \E i \in 1..Len(processed_parts) :
           processed_parts[i].type = "image_url"

\* Mutant: the detached system entry is put back behind the other entries.
Reassemble_SystemLast(system_prompt_entry, contexts, actual_quoted_contexts) ==
    contexts \o system_prompt_entry \o actual_quoted_contexts

\* Lines 555-559: new_contexts.  system_prompt_entry is a list of at most
\* one entry.
Reassemble(system_prompt_entry, contexts, actual_quoted_contexts) ==
    system_prompt_entry \o contexts \o actual_quoted_contexts

\* Line 565: the system entry is put back when other entries are left.
RestoreSystem(system_prompt_entry, contexts) ==
    IF system_prompt_entry # <<>> /\ contexts # <<>>
        THEN system_prompt_entry \o contexts
        ELSE contexts

\* Lines 482-487, and nothing after them: req.contexts when an exception
\* leaves the block behind line 487.  The list is the caller's; pop(0) has
\* taken the system entry out of it, and the handler of line 570 only logs.
Detached(contexts) ==
    LET list == IF contexts.kind = "none" THEN <<>> ELSE contexts.list
        detach == list # <<>> /\ list[1].role = "system"
    IN  [kind |-> "list", list |-> IF detach THEN Tail(list) ELSE list]

\* Lines 483-565: req.contexts after the parts of the quoted message were
\* handled; contexts is req.contexts before, a list or None.
Splice(contexts, processed_parts) ==
    IF processed_parts = <<>> THEN contexts
    ELSE LET list == IF contexts.kind = "none" THEN <<>> ELSE contexts.list
             detach == list # <<>> /\ list[1].role = "system"
             system_prompt_entry == IF detach THEN <<list[1]>> ELSE <<>>
             rest == IF detach THEN Tail(list) ELSE list
             actual_quoted_contexts ==
                 IF ShouldFormMultimodal(processed_parts)
                     THEN MultimodalQuoted(processed_parts)
                     ELSE FlatQuoted(processed_parts)
         IN  [kind |-> "list",
              list |-> IF actual_quoted_contexts # <<>>
                           THEN Reassemble(system_prompt_entry, rest,
                                           actual_quoted_contexts)
                           ELSE RestoreSystem(system_prompt_entry, rest)]

\* Mutant: the line that blanks the prompt is active.
PromptAfterSplice_Blank(prompt) == <<" ">>

\* Line 560: req.prompt after the quoted entry was put into the
\* contexts; the assignment is commented out, the prompt is left to the
\* caller.
PromptAfterSplice(prompt) == prompt

\* on_llm_request_handler, lines 428-571: one call for the current request.
\* quote tells where the lookup of the quoted message ends: another
\* platform (433), no reply segment (452), no client (468), get_msg raises
\* (570), a result of the wrong shape (568), or the message is there.
\* during tells what else happens while the handler runs.
on_llm_request_handler ==
    /\ rcalls = 0
    /\ rcalls' = 1
    /\ req0' = req
    /\ IF quote # "ok"
           THEN UNCHANGED <<req, downloads, cfg>>
           ELSE LET prepared == _prepare_multimodal_parts(segs)
                    raised == during = "sender_raises" /\ prepared.parts # <<>>
                    contexts == IF raised THEN Detached(req.contexts)
                                ELSE Splice(req.contexts, prepared.parts)
                    spliced == /\ prepared.parts # <<>>
                               /\ contexts.list # <<>>
                               /\ Len(contexts.list) >
                                      Len(req.contexts.list)
                IN  /\ req' = [contexts |-> contexts,
                               prompt |-> IF spliced
                                              THEN PromptAfterSplice(req.prompt)
                                              ELSE req.prompt]
                    /\ downloads' = downloads \o prepared.called
                    /\ cfg' = ConfigAtSplice
    /\ UNCHANGED <<segs, quote, during, adapterVars, responseVars, toolVars,
                   triggerVars>>

\* The segments a quoted message is made of: text, images whose download
\* succeeds or fails, voice, video, and a kind the plugin does not know.
TextSeg(text) == [type |-> "text", text |-> text, url |-> <<>>, fetch |-> "-"]

MediaSeg(seg_type, url, fetch) ==
    [type |-> seg_type, text |-> <<>>, url |-> url, fetch |-> fetch]

Segments ==
    { TextSeg(<<>>), TextSeg(<<" ">>), TextSeg(<<" ", "h", "i">>),
      MediaSeg("image", <<>>, "-"), MediaSeg("record", <<"u2">>, "-"),
      MediaSeg("video", <<"u3">>, "-"), MediaSeg("face", <<>>, "-") }
    \cup { MediaSeg("image", <<"u1">>, f) :
             f \in {"ok", "download_fails", "encode_fails"} }

\* get_msg returns the quoted message, one segment after the other.
AddSegment(seg) ==
    /\ rcalls = 0
    /\ Len(segs) < MaxSegs
    /\ segs' = Append(segs, seg)
    /\ UNCHANGED <<req, cfg, quote, during, downloads, req0, rcalls,
                   adapterVars, responseVars, toolVars, triggerVars>>

SystemEntry == [role |-> "system", content |-> StrContent(<<"sys">>)]

UserA == [role |-> "user", content |-> StrContent(<<"a">>)]

AssistantA == [role |-> "assistant", content |-> StrContent(<<"b">>)]

\* req.contexts on entry.
ContextPool ==
    { NoContexts } \cup
    { [kind |-> "list", list |-> l] :
        l \in { <<>>, <<SystemEntry>>, <<SystemEntry, UserA, AssistantA>>,
                <<UserA, AssistantA>> } }

\* An LLM request is about to be sent.
InitRequest ==
    /\ attrs = InitAttrs
    /\ EnvInit
    /\ NoResponse
    /\ quote \in {"other_platform", "no_reply", "no_client", "raises",
                  "bad_detail", "ok"}
    /\ \E contexts \in ContextPool : \E prompt \in {<<>>, <<"q">>} :
           req = [contexts |-> contexts, prompt |-> prompt]
    /\ cfg \in [enable_multimodal_processing : BOOLEAN,
                temp_media_dir : BOOLEAN]
    /\ quote # "ok" =>
           /\ req.prompt = <<>>
           /\ cfg = [enable_multimodal_processing |-> FALSE,
                     temp_media_dir |-> TRUE]
    /\ during = "nothing"
    /\ segs = <<>>
    /\ downloads = <<>>
    /\ req0 = req
    /\ rcalls = 0
    /\ NoTool
    /\ NoRunning

\* An LLM request that quotes a message is about to be sent, and while its
\* handler runs either nothing else happens, or event.get_sender_name()
\* raises at line 499, or an admin's /tps sm off is handled while a
\* download is awaited.
InitInterrupted ==
    /\ attrs = InitAttrs
    /\ EnvInit
    /\ NoResponse
    /\ quote = "ok"
    /\ during \in {"nothing", "sender_raises", "sm_off"}
    /\ \E contexts \in ContextPool :
           req = [contexts |-> contexts, prompt |-> <<"q">>]
    /\ cfg \in [enable_multimodal_processing : BOOLEAN,
                temp_media_dir : BOOLEAN]
    /\ segs = <<>>
    /\ downloads = <<>>
    /\ req0 = req
    /\ rcalls = 0
    /\ NoTool
    /\ NoRunning

NextRequest ==
    \/ \E seg \in Segments : AddSegment(seg)
    \/ on_llm_request_handler

SpecRequest == InitRequest /\ [][NextRequest]_vars

SpecInterrupted == InitInterrupted /\ [][NextRequest]_vars


-----------------------------------------------------------------------------
(* Vocabulary of the claims about the request handler.                     *)

\* on_llm_request_handler has returned, and it found the quoted message.
Quoted == rcalls = 1 /\ quote = "ok"

\* Segment i of the quoted message is an image with a URL.
IsImageWithUrl(i) == segs[i].type = "image" /\ segs[i].url # <<>>

\* Segment i has content the request can carry: a text that is not blank,
\* or an image, voice or video with a URL.
UsableSegment(i) ==
    \/ segs[i].type = "text" /\ Trimmed(segs[i].text) # <<>>
    \/ segs[i].type \in {"image", "record", "video"} /\ segs[i].url # <<>>

\* Segment i yields a part, usable or not.
YieldsPart(i) ==
    \/ segs[i].type = "text" /\ segs[i].text # <<>>
    \/ segs[i].type \in {"image", "record", "video"} /\ segs[i].url # <<>>

UsableQuote == \E i \in 1..Len(segs) : UsableSegment(i)

\* The parts _prepare_multimodal_parts returns for the quoted message.
Prepared == _prepare_multimodal_parts(segs).parts

Occurs(parts, part) ==
    Cardinality({ i \in 1..Len(parts) : parts[i] = part })

OldContexts == req0.contexts.list

NewContexts == req.contexts.list

-----------------------------------------------------------------------------
(* Claims C14 to C18.                                                      *)

\* C14: for a request context whose first entry has role system, after the
\* handler has spliced quoted content the contexts are the system entry,
\* the other original entries in their order, and one new user entry: the
\* system entry is at index 0 and the quoted entry is last.
C14_SystemStaysFirst ==
    (Quoted /\ UsableQuote /\ OldContexts # <<>>
        /\ OldContexts[1].role = "system") =>
        /\ Len(NewContexts) = Len(OldContexts) + 1
        /\ SubSeq(NewContexts, 1, Len(OldContexts)) = OldContexts
        /\ NewContexts[1].role = "system"
        /\ NewContexts[Len(NewContexts)].role = "user"
        /\ \A i \in 2..Len(OldContexts) : NewContexts[i].role # "system"

C14_Witness ==
    /\ Quoted
    /\ UsableQuote
    /\ OldContexts = <<SystemEntry, UserA, AssistantA>>
    /\ Len(NewContexts) = 4

\* C15: when the quoted parts yield no usable content, no entry is appended
\* and the contexts after the handler are the contexts before it, the
\* system entry at index 0, also when it was the only entry.
C15_NoUsableContentNoChange ==
    (Quoted /\ ~UsableQuote) => NewContexts = OldContexts

\* C16 as stated: after the quoted entry is spliced in, a prompt that is not
\* empty and is not the last context entry is appended as a trailing user
\* entry; otherwise the prompt is left unset.
C16_PromptAppendedOrUnset ==
    (Quoted /\ UsableQuote) =>
        IF req0.prompt # <<>>
            THEN NewContexts[Len(NewContexts)] =
                     [role |-> "user", content |-> StrContent(req0.prompt)]
            ELSE req.prompt = <<>>

\* C16 amended: after the quoted entry is spliced in, the quoted entry is
\* the last context entry, no entry is appended for the prompt, and the
\* prompt of the request is what it was before the handler ran.
C16_PromptLeftToCaller ==
    (Quoted /\ UsableQuote) =>
        /\ req.prompt = req0.prompt
        /\ Len(NewContexts) = Len(OldContexts) + 1
        /\ NewContexts[Len(NewContexts)].content # StrContent(req0.prompt)

C16_Witness ==
    /\ Quoted
    /\ UsableQuote
    /\ req0.prompt = <<"q">>
    /\ req.prompt = <<"q">>
    /\ Len(NewContexts) = Len(OldContexts) + 1

\* C17: with multimodal processing disabled, download_media is called for
\* no segment, and every image segment with a URL yields exactly one text
\* placeholder that carries the URL, and no inline image.
C17_DisabledNeverFetches ==
    (Quoted /\ ~cfg.enable_multimodal_processing) =>
        /\ downloads = <<>>
        /\ \A i \in 1..Len(Prepared) : Prepared[i].type = "text"
        /\ \A i \in 1..Len(segs) :
               IsImageWithUrl(i) =>
                   Occurs(Prepared,
                          TextPart(ImageUrlText(i, segs[i].url))) = 1
        /\ Len(Prepared) = Cardinality({ i \in 1..Len(segs) : YieldsPart(i) })

C17_Witness ==
    /\ Quoted
    /\ ~cfg.enable_multimodal_processing
    /\ \E i \in 1..Len(segs) : IsImageWithUrl(i)
    /\ Len(segs) = MaxSegs

\* The image segment i cannot be inlined, and why.
FailureOf(i) ==
    IF ~cfg.temp_media_dir \/ segs[i].fetch = "download_fails"
        THEN "download"
    ELSE IF segs[i].fetch = "encode_fails" THEN "encode"
    ELSE "none"

\* C18: with multimodal processing enabled, an image segment whose download
\* or encoding fails, or that meets an uninitialized temp directory, yields
\* one text placeholder describing the failure and no inline image; the
\* other segments are converted all the same.
C18_FailureYieldsPlaceholder ==
    (Quoted /\ cfg.enable_multimodal_processing) =>
        /\ \A i \in 1..Len(segs) :
               IsImageWithUrl(i) =>
                   /\ FailureOf(i) = "download" =>
                          Occurs(Prepared, TextPart(
                              DownloadFailedText(i, segs[i].url))) = 1
                   /\ FailureOf(i) = "encode" =>
                          Occurs(Prepared, TextPart(
                              EncodeFailedText(i, segs[i].url))) = 1
                   /\ FailureOf(i) = "none" =>
                          Occurs(Prepared, TextPart(
                              ImageUrlText(i, segs[i].url))) = 1
        /\ Cardinality({ i \in 1..Len(Prepared) :
                           Prepared[i].type = "image_url" })
               = Cardinality({ i \in 1..Len(segs) :
                                 IsImageWithUrl(i) /\ FailureOf(i) = "none" })
        /\ Cardinality({ i \in 1..Len(Prepared) : Prepared[i].type = "text" })
               = Cardinality({ i \in 1..Len(segs) : YieldsPart(i) })
        /\ ~cfg.temp_media_dir => downloads = <<>>

\* A failed image is followed by a segment that is converted.
C18_Witness ==
    /\ Quoted
    /\ cfg.enable_multimodal_processing
    /\ Len(segs) = 2
    /\ IsImageWithUrl(1)
    /\ FailureOf(1) # "none"
    /\ IsImageWithUrl(2)
    /\ FailureOf(2) = "none"


-----------------------------------------------------------------------------
(* Claims C19 and C20, about the scan of the history.                      *)

\* A trigger for s has just run the scan over the history list of s.
Scanned(s) == Triggered(s) /\ HasTracking

\* processedPositions of s as the scan of the last trigger found them: the
\* recorded ones, none after a reset.
ProcessedBefore(s) ==
    IF last.pre_len # -1 /\ Len(conv[s].list) < last.pre_len
        THEN {}
        ELSE last.pre_idx

\* The registered entries of s the last trigger found unprocessed.
Unprocessed(s) == Registered(conv[s].list) \ ProcessedBefore(s)

Newest(ps) == CHOOSE p \in ps : \A q \in ps : q <= p

\* Walking back from the newest entry, the scan of the last trigger came to
\* the processed tool entry at p before it came to any unprocessed
\* registered entry.
MeetsProcessed(s, p) ==
    /\ p \in ProcessedBefore(s)
    /\ p < Len(conv[s].list)
    /\ IsCompleteToolEntry(conv[s].list[p + 1])
    /\ \A q \in Unprocessed(s) : q < p

\* C19: a registered tool entry whose payload cannot be parsed or holds
\* nothing usable is marked processed by the trigger that meets it and no
\* message is sent for it; later triggers do not call its handler again,
\* and an older unprocessed registered entry with a usable payload is
\* delivered although the malformed entry is newer.
C19_MalformedMarkedNotBlocking ==
    \A s \in Sessions :
        /\ Scanned(s) =>
               \A p \in last.handed :
                   ~Usable(conv[s].list[p + 1]) =>
                       last.sent = 0 /\ p \in Processed(s)
        /\ grown[s] =>
               \A p \in DOMAIN handed[s] :
                   (p < Len(conv[s].list) /\ p \in Registered(conv[s].list)
                       /\ ~Usable(conv[s].list[p + 1])) => handed[s][p] <= 1
        /\ (Scanned(s) /\ Unprocessed(s) # {}
               /\ Usable(conv[s].list[Newest(Unprocessed(s)) + 1])) =>
               last.sent = 1

\* A malformed registered entry was processed before and an older usable
\* entry is delivered by the last trigger.
C19_Witness ==
    /\ Scanned("s1")
    /\ last.sent = 1
    /\ \E p \in last.handed :
       \E q \in ProcessedBefore("s1") \cap Registered(conv["s1"].list) :
           /\ p < q
           /\ ~Usable(conv["s1"].list[q + 1])

\* C20 as stated: when the scan meets a tool entry whose position is already
\* processed, the trigger delivers nothing and calls no handler, also when
\* an older registered entry was never processed.
C20_ScanStopsAtProcessed ==
    \A s \in Sessions :
        (Scanned(s) /\ \E p \in ProcessedBefore(s) : MeetsProcessed(s, p)) =>
            last.sent = 0 /\ last.handed = {}

\* C20 amended: when the scan meets a tool entry whose position is already
\* processed, it passes over it and goes on to the older entries: the
\* trigger calls the handler of the newest registered entry that was never
\* processed, and calls no handler only when there is none.
C20_ScanPassesProcessed ==
    \A s \in Sessions :
        (Scanned(s) /\ \E p \in ProcessedBefore(s) : MeetsProcessed(s, p)) =>
            IF Unprocessed(s) = {}
                THEN last.sent = 0 /\ last.handed = {}
                ELSE last.handed = {Newest(Unprocessed(s))}

C20_Witness ==
    /\ Scanned("s1")
    /\ \E p \in ProcessedBefore("s1") : MeetsProcessed("s1", p)
    /\ Unprocessed("s1") # {}
    /\ last.handed = {Newest(Unprocessed("s1"))}

-----------------------------------------------------------------------------
(* Claims about the state file at construction.                            *)

\* C21: a plugin constructed over a missing or a corrupt state file holds
\* the empty state: no processed positions and no recorded lengths for any
\* session, and nothing of the corrupt content.
C21_StartsFromEmptyState ==
    (restarts > 0 /\ (~store.exists \/ store.corrupt)) =>
        /\ \A s \in Sessions : Processed(s) = {} /\ LastLength(s) = -1
        /\ session_processed_indices # store.indices \/ ~store.corrupt

\* C21 witness: the plugin was constructed over a corrupt file and a
\* trigger on a history with a registered entry has returned.
C21_Witness ==
    /\ restarts > 0 /\ store.corrupt
    /\ Triggered("s1") /\ Registered(conv["s1"].list) # {}
    /\ Processed("s1") = {}

-----------------------------------------------------------------------------
(* Claims about the classification and the order of sending.               *)

\* The extensions the claim lists, in lower case.
ListedExtension(c) ==
    LET lc == [i \in 1..Len(c) |-> LowerChar(c[i])]
        ends(e) == Len(lc) >= Len(e)
                   /\ SubSeq(lc, Len(lc) - Len(e) + 1, Len(lc)) = e
    IN  \/ ends(<<".", "j", "p", "g">>) \/ ends(<<".", "j", "p", "e", "g">>)
        \/ ends(<<".", "p", "n", "g">>) \/ ends(<<".", "g", "i", "f">>)
        \/ ends(<<".", "m", "p", "4">>) \/ ends(<<".", "m", "o", "v">>)
        \/ ends(<<".", "a", "v", "i">>) \/ ends(<<".", "w", "a", "v">>)
        \/ ends(<<".", "p", "d", "f">>) \/ ends(<<".", "d", "o", "c">>)
        \/ ends(<<".", "d", "o", "c", "x">>) \/ ends(<<".", "t", "x", "t">>)

\* A POSIX absolute path or a Windows drive-letter path.
IsLocalPath(c) ==
    \/ Len(c) >= 1 /\ c[1] = "/"
    \/ Len(c) >= 3 /\ c[1] \in Letters /\ c[2] = ":" /\ c[3] = "\\"

\* An http or https URL.
IsWebUrl(c) ==
    \/ Len(c) >= 7 /\ SubSeq(c, 1, 7) = <<"h", "t", "t", "p", ":", "/", "/">>
    \/ Len(c) >= 8
         /\ SubSeq(c, 1, 8) = <<"h", "t", "t", "p", "s", ":", "/", "/">>

\* The bodies of the media messages sent.
SentMedia == { outbox[i].body : i \in { j \in 1..Len(outbox) :
                                          IsMediaMessage(outbox[j]) } }

\* C23: of the candidates of a handled response, a local path with a listed
\* extension is sent as media exactly when it exists on the disk, an http
\* or https URL with a listed extension is sent as media, and a string
\* without a listed extension is never sent as media.
C23_IsMediaClassification ==
    Handled =>
        \A c \in CorrectedPaths(orig) :
            /\ (ListedExtension(c) /\ IsLocalPath(c)) =>
                   (c \in SentMedia <=> c \in fs)
            /\ (ListedExtension(c) /\ IsWebUrl(c)) => c \in SentMedia
            /\ ~ListedExtension(c) => c \notin SentMedia

\* C23 witness: a handled response with a local path that does not exist
\* and a local path that exists, of which one message was sent as media.
C23_Witness ==
    /\ Handled
    /\ \E c \in CorrectedPaths(orig) :
           ListedExtension(c) /\ IsLocalPath(c) /\ c \notin fs
    /\ \E c \in CorrectedPaths(orig) :
           ListedExtension(c) /\ IsLocalPath(c) /\ c \in fs
    /\ Cardinality(SentMedia) = 1

-----------------------------------------------------------------------------
(* Claims about the direction and the frame of the scan.                   *)

\* C24: a trigger that finds several unprocessed registered tool entries
\* hands the one with the greatest position to its handler, and of two
\* successive triggers on an unchanged history the later one hands a
\* position below the one the earlier handed.
C24_NewestFirst ==
    \A s \in Sessions :
        Scanned(s) =>
            /\ Cardinality(Unprocessed(s)) >= 2 =>
                   last.handed = {Newest(Unprocessed(s))}
            /\ last.nth = 2 =>
                   \A p \in last.handed : \A q \in last.prev : p < q

\* C24 witness: two successive triggers on a history with several
\* unprocessed registered entries each handed a position.
C24_Witness ==
    /\ Scanned("s1") /\ last.nth = 2
    /\ last.prev # {} /\ last.handed # {}
    /\ Cardinality(Registered(conv["s1"].list)) >= 3

\* A tool entry with a non-empty string content whose identifier starts
\* with a known prefix.
RegisteredEntry(e) ==
    /\ e.role = "tool"
    /\ {"tool_call_id", "content"} \subseteq e.keys
    /\ e.content # ""
    /\ \E known \in {SD_IMAGE_GEN_PREFIX, OPENAPI_SPEECH_PREFIX,
                       GEMINI_EDIT_IMAGE_PREFIX} :
           StartsWith(e.tool_call_id, known)

\* The last trigger was for s, on an instance with the state dicts.
Ran(s) == last.sid = s /\ HasTracking

\* Every registered entry of s was in processedPositions when the last
\* trigger began.
NothingToDeliver(s) ==
    \A p \in 0..(Len(conv[s].list) - 1) :
        RegisteredEntry(conv[s].list[p + 1]) => p \in last.pre_idx

\* The positions the last trigger added hold registered entries.
OnlyRegisteredAdded(s) ==
    \A p \in Processed(s) \ last.pre_idx :
        p < Len(conv[s].list) /\ RegisteredEntry(conv[s].list[p + 1])

\* C25 as stated: when the history holds no tool entry that is registered
\* and unprocessed, a trigger sends no message and leaves processedPositions
\* unchanged; the positions of other entries are never added.
C25_NothingToDeliverNoChange ==
    \A s \in Sessions :
        Ran(s) =>
            /\ NothingToDeliver(s) =>
                   last.sent = 0 /\ Processed(s) = last.pre_idx
            /\ OnlyRegisteredAdded(s)

\* C25 amended: when the history holds no tool entry that is registered and
\* unprocessed and its length is not below the recorded lastHistoryLength,
\* a trigger sends no message and leaves processedPositions unchanged; the
\* positions of other entries are never added.
C25_NoChangeWithoutReset ==
    \A s \in Sessions :
        Ran(s) =>
            /\ (NothingToDeliver(s) /\ ~(Observed(s) < last.pre_len)) =>
                   last.sent = 0 /\ Processed(s) = last.pre_idx
            /\ OnlyRegisteredAdded(s)

\* C25 witness: a trigger on a history with a processed registered entry,
\* an entry with an unregistered identifier and an entry without content
\* has returned.
C25_Witness ==
    LET h == conv["s1"].list
    IN  /\ Ran("s1") /\ NothingToDeliver("s1")
        /\ ~(Observed("s1") < last.pre_len)
        /\ \E p \in last.pre_idx :
               p < Len(h) /\ RegisteredEntry(h[p + 1])
        /\ \E i \in 1..Len(h) :
               h[i].role = "tool" /\ h[i].content # ""
                   /\ ~RegisteredEntry(h[i])
        /\ \E i \in 1..Len(h) : h[i].role = "tool" /\ h[i].content = ""

-----------------------------------------------------------------------------
(* Claims about the rendering of the quoted entry.                         *)

\* The handler put a quoted entry behind the entries of the request.
QuotedEntryAdded == Quoted /\ Len(NewContexts) > Len(OldContexts)

\* The entry built from the quoted message.
QuotedEntry == NewContexts[Len(NewContexts)]

IsImagePart(part) == part.type = "image_url"

IsTextPart(part) == part.type = "text"

\* At least one of the parts built from the quoted message is an inline
\* image.
HasInlineImage == \E i \in 1..Len(Prepared) : IsImagePart(Prepared[i])

\* C26: the quoted entry has a list of parts as content exactly when the
\* multimodal switch is on and at least one built part is an inline image;
\* in every other case its content is one plain string.
C26_RenderingMode ==
    QuotedEntryAdded =>
        IF cfg.enable_multimodal_processing /\ HasInlineImage
            THEN QuotedEntry.content.kind = "parts"
            ELSE QuotedEntry.content.kind = "str"

\* C26 witness: the switch is on, the quoted message has an image whose
\* download failed, and the quoted entry has a plain string as content.
C26_Witness ==
    /\ QuotedEntryAdded
    /\ cfg.enable_multimodal_processing /\ cfg.temp_media_dir
    /\ \E i \in 1..Len(segs) : IsImageWithUrl(i)
    /\ ~HasInlineImage
    /\ QuotedEntry.content.kind = "str"

\* The parts of the quoted entry between the prefix and the suffix.
Inner ==
    LET parts == QuotedEntry.content.parts
    IN  SubSeq(parts, 2, Len(parts) - 1)

\* What a list of parts carries, in order: every image, and of every text
\* the tokens that are not whitespace.
RECURSIVE Carried(_)
Carried(parts) ==
    IF parts = <<>> THEN <<>>
    ELSE (IF IsImagePart(Head(parts))
              THEN <<<<"image">> \o Head(parts).url>>
              ELSE LET text == Head(parts).text
                       solid == SelectSeq(text,
                                          LAMBDA c : c \notin Whitespace)
                   IN  [i \in 1..Len(solid) |-> <<solid[i]>>])
         \o Carried(Tail(parts))

\* The maximal runs of consecutive text parts of a list of parts, by the
\* index of their first part.
TextRuns(parts) ==
    { i \in 1..Len(parts) :
        IsTextPart(parts[i]) /\ (i = 1 \/ IsImagePart(parts[i - 1])) }

\* Order is kept, every inline image is there once, and no two text parts
\* are adjacent between the prefix and the suffix.
OrderKeptAndMerged ==
    /\ QuotedEntry.content.parts[1] = TextPart(Trimmed(prefix))
    /\ QuotedEntry.content.parts[Len(QuotedEntry.content.parts)] =
           TextPart(Trimmed(suffix))
    /\ Carried(Inner) = Carried(Prepared)
    /\ SelectSeq(Inner, IsImagePart) = SelectSeq(Prepared, IsImagePart)
    /\ \A i \in 1..(Len(Inner) - 1) :
           ~(IsTextPart(Inner[i]) /\ IsTextPart(Inner[i + 1]))

\* The quoted entry was rendered as a list of parts.
MultimodalMode == QuotedEntryAdded /\ QuotedEntry.content.kind = "parts"

\* C27 as stated: in multimodal mode the quoted parts keep their order,
\* every inline image part appears exactly once, and each maximal run of
\* consecutive text parts is merged into a single text part, so that between
\* the prefix and the suffix no two text parts are adjacent.
C27_EveryRunOnePart ==
    MultimodalMode =>
        /\ OrderKeptAndMerged
        /\ Cardinality(TextRuns(Inner)) = Cardinality(TextRuns(Prepared))

\* C27 amended: in multimodal mode the quoted parts keep their order, every
\* inline image part appears exactly once, and each maximal run of
\* consecutive text parts is merged into a single text part, or left out
\* when all its texts are blank, so that between the prefix and the suffix
\* no two text parts are adjacent and no text part is empty.
C27_RunsMergedBlankDropped ==
    MultimodalMode =>
        /\ OrderKeptAndMerged
        /\ \A i \in 1..Len(Inner) :
               IsTextPart(Inner[i]) => Trimmed(Inner[i].text) # <<>>
        /\ Cardinality(TextRuns(Inner)) =
               Cardinality({ i \in TextRuns(Prepared) :
                   \E j \in i..Len(Prepared) :
                       /\ \A k \in i..j : IsTextPart(Prepared[k])
                       /\ Trimmed(Prepared[j].text) # <<>> })

\* C27 witness: a run of two text parts behind an inline image was merged
\* into one part.
C27_Witness ==
    /\ MultimodalMode
    /\ \E i \in 1..(Len(Prepared) - 1) :
           IsTextPart(Prepared[i]) /\ IsTextPart(Prepared[i + 1])
    /\ Len(Inner) < Len(Prepared)

\* Segment i of the quoted message is a voice or a video with a URL.
IsVoiceOrVideoWithUrl(i) ==
    segs[i].type \in {"record", "video"} /\ segs[i].url # <<>>

\* The word a placeholder names the kind of segment i with.
KindWord(i) ==
    IF segs[i].type = "record" THEN "quoted voice" ELSE "quoted video"

Tokens_of(text) == { text[k] : k \in 1..Len(text) }

\* The built parts that belong to segment i: the texts that carry its
\* number and the inline parts for its URL.
PartsOf(i) ==
    { k \in 1..Len(Prepared) :
        IF IsTextPart(Prepared[k])
            THEN IdxStr(i) \in Tokens_of(Prepared[k].text)
            ELSE Tokens_of(segs[i].url) \subseteq Tokens_of(Prepared[k].url) }

\* C28: whatever the multimodal switch is, a voice or video segment with a
\* URL is never fetched and yields no inline part: it yields exactly one
\* part, a text that names the media kind and the URL.
C28_VoiceVideoPlaceholderOnly ==
    Quoted =>
        \A i \in 1..Len(segs) :
            IsVoiceOrVideoWithUrl(i) =>
                /\ \A k \in 1..Len(downloads) : downloads[k] # segs[i].url
                /\ Cardinality(PartsOf(i)) = 1
                /\ \A k \in PartsOf(i) :
                       /\ IsTextPart(Prepared[k])
                       /\ KindWord(i) \in Tokens_of(Prepared[k].text)
                       /\ Tokens_of(segs[i].url) \subseteq
                              Tokens_of(Prepared[k].text)

\* C28 witness: the switch is on, the quoted message is an image that was
\* fetched and a voice segment.
C28_Witness ==
    /\ Quoted
    /\ cfg.enable_multimodal_processing
    /\ downloads # <<>>
    /\ \E i \in 1..Len(segs) :
           IsVoiceOrVideoWithUrl(i) /\ segs[i].type = "record"

-----------------------------------------------------------------------------
(* Claim about the order of the messages of a segmented response.          *)

\* What was sent, message by message: media or text, and the body.
Sent ==
    [i \in 1..Len(outbox) |->
        [media |-> IsMediaMessage(outbox[i]), body |-> outbox[i].body]]

TextOf(body) == IF body # <<>> THEN <<[media |-> FALSE, body |-> body]>>
                ELSE <<>>

\* The messages for items[k] and the ones behind it, with the text in front
\* of each item and the trailing text taken verbatim.
RECURSIVE InTextOrderVerbatim(_, _, _)
InTextOrderVerbatim(items, k, previous_end) ==
    IF k > Len(items)
        THEN TextOf(Slice(orig, previous_end, Len(orig)))
    ELSE TextOf(Slice(orig, previous_end, items[k].original.start))
         \o <<[media |-> TRUE, body |-> items[k].corrected_path]>>
         \o InTextOrderVerbatim(items, k + 1, items[k].original.end)

\* The same with every text trimmed of the whitespace at its two ends.
RECURSIVE InTextOrderTrimmed(_, _, _)
InTextOrderTrimmed(items, k, previous_end) ==
    IF k > Len(items)
        THEN TextOf(Trimmed(Slice(orig, previous_end, Len(orig))))
    ELSE TextOf(Trimmed(Slice(orig, previous_end, items[k].original.start)))
         \o <<[media |-> TRUE, body |-> items[k].corrected_path]>>
         \o InTextOrderTrimmed(items, k + 1, items[k].original.end)

\* The items come in increasing start offset.
IncreasingStart(items) ==
    \A i, j \in 1..Len(items) :
        i < j => items[i].original.start < items[j].original.start

\* No text message is empty and there is one media message for each item.
NoEmptyTextEachItemOnce(items) ==
    /\ \A i \in 1..Len(outbox) :
           IsTextMessage(outbox[i]) => outbox[i].body # <<>>
    /\ Len(MediaMessages) = Len(items)

\* C29 as stated: a segmented response is sent in text order: for each media
\* item in increasing start offset the non-empty text between the previous
\* item's end and its start, then the media message, and last the non-empty
\* trailing text; no empty text message, every media item exactly once.
C29_SentInTextOrder ==
    Segmented =>
        LET items == Items
        IN  /\ IncreasingStart(items)
            /\ Sent = InTextOrderVerbatim(items, 1, 0)
            /\ NoEmptyTextEachItemOnce(items)

\* C29 amended: the same, where each text is sent without the whitespace at
\* its two ends and only when something is left of it.
C29_SentInTextOrderTrimmed ==
    Segmented =>
        LET items == Items
        IN  /\ IncreasingStart(items)
            /\ Sent = InTextOrderTrimmed(items, 1, 0)
            /\ NoEmptyTextEachItemOnce(items)

\* C29 witness: a response with two media items, text between them that is
\* more than whitespace, sent as media, text, media.
C29_Witness ==
    /\ Segmented
    /\ Len(outbox) = 3
    /\ IsMediaMessage(outbox[1]) /\ IsTextMessage(outbox[2])
    /\ IsMediaMessage(outbox[3])

-----------------------------------------------------------------------------
(* understand_media_from_reply: the LLM tool that sends a quoted video or  *)
(* voice file to the generative-media API.                                 *)

\* event.plain_result of an error text, and of the text the API returned.
ErrorResult(text) == [kind |-> "error", text |-> text]

AnswerResult(text) == [kind |-> "answer", text |-> text]

\* What a call has yielded and which outside calls it has made.
ToolOutcome(results, made) == [results |-> results, calls |-> made]

\* The file download_media writes for the tool (utils.py 86-87).
GeminiMediaFile == "gemini_media_file"

\* Lines 176-193: the first video or voice segment with a URL, 0 for none.
RECURSIVE FirstMediaFrom(_, _)
FirstMediaFrom(replied_segments, i) ==
    IF i > Len(replied_segments) THEN 0
    ELSE IF replied_segments[i].type \in {"video", "record"}
            /\ replied_segments[i].url # <<>>
        THEN i
    ELSE FirstMediaFrom(replied_segments, i + 1)

\* Line 206
max_size_bytes == 20 * 1024 * 1024

\* Mutant: no file is too large.
TooLarge_Never(file_size) == FALSE

\* Line 207: the size check.
TooLarge(file_size) == file_size > max_size_bytes

\* Path.unlink on the downloaded file: whether the file is gone afterwards.
\* The call raises when the file cannot be removed.
Unlinked(env) == env.unlink = "ok"

\* Lines 261-267: the finally block removes the file when it is still
\* there; an exception of unlink is caught and logged.
Finally(env, results, made, exists) ==
    [results |-> results,
     calls |-> IF exists THEN Append(made, "unlink") ELSE made,
     files |-> IF exists /\ ~Unlinked(env) THEN {GeminiMediaFile} ELSE {}]

\* Lines 197-265, after the quoted message gave a media URL: download, size
\* check, encoding, the call of the API.  The file is removed when the
\* check rejects it (210-211, 216-217) and in the finally block (261-267);
\* an exception of the unlink of line 211 is caught at line 213, one of the
\* unlink of line 217 at line 258, and each handler yields a message.
ProcessMedia(env, made) ==
    LET downloaded == Append(made, "download_media")
        removed == Append(downloaded, "unlink")
        internal == ErrorResult("internal error")
    IN  IF env.download = "fails"
            THEN [results |-> <<ErrorResult("cannot download")>>,
                  calls |-> downloaded, files |-> {}]
        ELSE IF env.download = "breaks_off"
            \* utils.py 88-93: the file is open and partly written when
            \* the read raises; download_media returns None at line 102-104
            \* and the tool has no path to remove
            THEN [results |-> <<ErrorResult("cannot download")>>,
                  calls |-> downloaded, files |-> {GeminiMediaFile}]
        ELSE IF env.stat = "raises"
            THEN IF Unlinked(env)
                     THEN Finally(env, <<ErrorResult("size check failed")>>,
                                  removed, FALSE)
                     ELSE Finally(env, <<ErrorResult("size check failed"),
                                        internal>>, removed, TRUE)
        ELSE IF TooLarge(env.file_size)
            THEN IF Unlinked(env)
                     THEN Finally(env, <<ErrorResult("over the 20MB limit")>>,
                                  removed, FALSE)
                     ELSE Finally(env, <<ErrorResult("over the 20MB limit"),
                                        ErrorResult("size check failed"),
                                        internal>>,
                                  Append(removed, "unlink"), TRUE)
        ELSE IF ~env.base64
            THEN Finally(env, <<ErrorResult("base64 failed")>>, downloaded,
                         TRUE)
        ELSE Finally(env,
                     <<IF env.api = "text" THEN AnswerResult("api text")
                       ELSE ErrorResult("api call failed")>>,
                     Append(downloaded, "call_gemini_api"), TRUE)

\* A call that ends before download_media leaves no file.
NoFile(outcome) ==
    [results |-> outcome.results, calls |-> outcome.calls, files |-> {}]

\* understand_media_from_reply, lines 114-265, as a function of what the
\* call meets.
UnderstandMedia(env, replied_segments) ==
    IF ~env.gemini_api_key
        THEN NoFile(ToolOutcome(<<ErrorResult("api key not configured")>>, <<>>))
    ELSE IF ~env.temp_media_dir
        THEN NoFile(ToolOutcome(<<ErrorResult("no temp directory")>>, <<>>))
    ELSE IF env.lookup = "other_platform"
        THEN NoFile(ToolOutcome(<<ErrorResult("platform not supported")>>, <<>>))
    ELSE IF env.lookup = "no_reply"
        THEN NoFile(ToolOutcome(<<ErrorResult("no quoted message")>>, <<>>))
    ELSE IF env.lookup = "no_client"
        THEN NoFile(ToolOutcome(<<ErrorResult("no client")>>, <<>>))
    ELSE IF env.lookup = "raises"
        THEN NoFile(ToolOutcome(<<ErrorResult("internal error")>>, <<"get_msg">>))
    ELSE IF env.lookup = "bad_detail"
        THEN NoFile(ToolOutcome(<<ErrorResult("no message detail")>>, <<"get_msg">>))
    ELSE IF FirstMediaFrom(replied_segments, 1) = 0
        THEN NoFile(ToolOutcome(<<ErrorResult("no video or voice")>>, <<"get_msg">>))
    ELSE ProcessMedia(env, <<"get_msg">>)

\* One call of the tool.
understand_media_from_reply ==
    /\ ~tool_done
    /\ tool_done' = TRUE
    /\ LET out == UnderstandMedia(tool_env, tool_segs)
       IN  /\ tool_results' = out.results
           /\ tool_calls' = out.calls
           /\ temp_files' = out.files
    /\ UNCHANGED <<tool_env, tool_segs, adapterVars, responseVars,
                   requestVars, triggerVars>>

\* The segments of the message the tool call quotes.
ToolSegments ==
    { TextSeg(<<" ", "h", "i">>), MediaSeg("image", <<"u1">>, "ok"),
      MediaSeg("record", <<"u2">>, "-"), MediaSeg("video", <<"u3">>, "-"),
      MediaSeg("record", <<>>, "-") }

\* get_msg returns the quoted message, one segment after the other.
AddToolSegment(seg) ==
    /\ ~tool_done
    /\ Len(tool_segs) < MaxSegs
    /\ tool_segs' = Append(tool_segs, seg)
    /\ UNCHANGED <<tool_env, tool_results, tool_calls, tool_done,
                   temp_files, adapterVars, responseVars, requestVars,
                   triggerVars>>

\* The sizes of the downloaded file, around the limit.
FileSizes ==
    {0, 20 * 1024 * 1024 - 1, 20 * 1024 * 1024, 20 * 1024 * 1024 + 1}

\* The LLM calls the tool.
InitTool ==
    /\ attrs = InitAttrs
    /\ EnvInit
    /\ NoResponse
    /\ NoRequest
    /\ tool_env \in [gemini_api_key : BOOLEAN, temp_media_dir : BOOLEAN,
                      lookup : {"other_platform", "no_reply", "no_client",
                                "raises", "bad_detail", "ok"},
                      download : {"ok", "fails"}, stat : {"ok", "raises"},
                      file_size : FileSizes, base64 : BOOLEAN,
                      api : {"text", "none"}, unlink : {"ok"}]
    /\ tool_env.lookup # "ok" =>
           /\ tool_env.download = "ok" /\ tool_env.stat = "ok"
           /\ tool_env.file_size = 0 /\ tool_env.base64
           /\ tool_env.api = "text"
    /\ tool_env.download = "fails" =>
           /\ tool_env.stat = "ok" /\ tool_env.file_size = 0
           /\ tool_env.base64 /\ tool_env.api = "text"
    /\ tool_segs = <<>>
    /\ tool_results = <<>>
    /\ tool_calls = <<>>
    /\ tool_done = FALSE
    /\ temp_files = {}
    /\ NoRunning

\* The LLM calls the tool for a quoted message that is found, on a disk and
\* a network that can fail: the transfer can break off after the file was
\* opened, and the file can refuse to be removed.
InitToolFaults ==
    /\ attrs = InitAttrs
    /\ EnvInit
    /\ NoResponse
    /\ NoRequest
    /\ tool_env \in [gemini_api_key : {TRUE}, temp_media_dir : {TRUE},
                      lookup : {"ok"},
                      download : {"ok", "fails", "breaks_off"},
                      stat : {"ok", "raises"},
                      file_size : FileSizes, base64 : BOOLEAN,
                      api : {"text", "none"}, unlink : {"ok", "raises"}]
    /\ tool_env.download # "ok" =>
           /\ tool_env.stat = "ok" /\ tool_env.file_size = 0
           /\ tool_env.base64 /\ tool_env.api = "text"
           /\ tool_env.unlink = "ok"
    /\ tool_segs = <<>>
    /\ tool_results = <<>>
    /\ tool_calls = <<>>
    /\ tool_done = FALSE
    /\ temp_files = {}
    /\ NoRunning

NextTool ==
    \/ \E seg \in ToolSegments : AddToolSegment(seg)
    \/ understand_media_from_reply

SpecTool == InitTool /\ [][NextTool]_vars

SpecToolFaults == InitToolFaults /\ [][NextTool]_vars

\* The call quoted a message with a video or voice file and the download
\* gave a file.
Downloaded ==
    /\ tool_done
    /\ "download_media" \in { tool_calls[i] : i \in 1..Len(tool_calls) }
    /\ tool_env.download = "ok"

\* The call yielded one result, an error.
YieldedError ==
    Len(tool_results) = 1 /\ tool_results[1].kind = "error"

\* C30: a downloaded file of more than 20 MiB is rejected before the API is
\* called: call_gemini_api is not invoked and an error is yielded; with no
\* API key the tool yields an error before any lookup or download.
C30_LargeFileAndMissingKeyRejected ==
    /\ (Downloaded /\ tool_env.file_size > 20971520) =>
           /\ \A i \in 1..Len(tool_calls) : tool_calls[i] # "call_gemini_api"
           /\ YieldedError
    /\ (tool_done /\ ~tool_env.gemini_api_key) =>
           tool_calls = <<>> /\ YieldedError

\* C30 witness: a file of one byte more than 20 MiB was downloaded, its
\* size could be read and its encoding would have succeeded.
C30_Witness ==
    /\ Downloaded
    /\ tool_env.file_size = 20971521
    /\ tool_env.stat = "ok" /\ tool_env.base64 /\ tool_env.api = "text"
    /\ YieldedError

-----------------------------------------------------------------------------
(* Claims about deferred delivery.                                         *)

\* Position p of the history of s1 holds a registered entry that is not in
\* processedPositions.
Pending(p) ==
    /\ p < Len(conv["s1"].list)
    /\ RegisteredEntry(conv["s1"].list[p + 1])
    /\ p \notin Processed("s1")

\* Position p was handed to its handler and is in processedPositions.
Delivered(p) ==
    /\ Get(handed["s1"], p, 0) >= 1
    /\ p \in Processed("s1")

\* C31: on a history that is not changed but by appending, with triggers
\* that keep arriving, every registered tool entry that is not in
\* processedPositions is eventually handed to its handler and marked
\* processed.
C31_EveryPendingEntryDelivered ==
    \A p \in 0..(MaxHist - 1) : Pending(p) ~> Delivered(p)

\* C31 witness: a history with three registered entries, each handed to its
\* handler once and marked processed.
C31_Witness ==
    /\ Len(conv["s1"].list) = 3
    /\ \A p \in 0..2 :
           /\ RegisteredEntry(conv["s1"].list[p + 1])
           /\ Delivered(p) /\ handed["s1"][p] = 1

\* C32: when two triggers of one session interleave at the await points,
\* no history position is handed to a handler by both of them.
C32_NoPositionHandedByBoth ==
    running[1].handed \cap running[2].handed = {}

\* The history of s1 has been emptied and has not regrown yet.
Emptied == ~grown["s1"] /\ conv["s1"].list = <<>>

\* Position p of the history of s1 holds a registered tool entry.
RegisteredAt(p) ==
    /\ p < Len(conv["s1"].list)
    /\ RegisteredEntry(conv["s1"].list[p + 1])

\* The last trigger handed position p of s1 to a handler.
HandedNow(p) == last.sid = "s1" /\ p \in last.handed

\* C33: once the history has been emptied, a registered tool entry that
\* the regrown history holds at position p is handed to a handler by a
\* later trigger, also when p was delivered before the reset and the
\* history has regrown to the recorded length before the next trigger.
C33_DeliveredAfterRegrowth ==
    \A p \in 0..(MaxHist - 1) :
        [](Emptied => (<>RegisteredAt(p) => <>HandedNow(p)))

\* The span of a media item in the response text.
SpanOf(item) == [start |-> item.original.start, end |-> item.original.end]

\* C34: the media items that survive extraction have pairwise
\* non-overlapping spans in the response text, so that one reference in
\* the text is not sent as two media messages.
C34_ItemSpansDisjoint ==
    Handled =>
        LET items == Items
        IN  \A i, j \in 1..Len(items) :
                i < j => Disjoint(SpanOf(items[i]), SpanOf(items[j]))

\* What the two dicts hold for session s.
TrackedFor(s) ==
    [ids |-> IF s \in DOMAIN session_processed_indices
                 THEN <<session_processed_indices[s]>> ELSE <<>>,
     len |-> IF s \in DOMAIN session_last_history_length
                 THEN <<session_last_history_length[s]>> ELSE <<>>]

\* C35: a trigger for session a leaves the processedPositions and the
\* lastHistoryLength of every other session b as they were.
C35_SessionIsolation ==
    [][\A a, b \in Sessions :
          (a # b /\ last'.sid = a) => TrackedFor(b)' = TrackedFor(b)]_vars

\* A trigger for s1 has handed an entry and changed the state of s1 while
\* s2 has processed positions and a recorded length of its own.
C35_Witness ==
    /\ last.sid = "s1"
    /\ last.handed # {}
    /\ Processed("s1") # last.pre_idx
    /\ Processed("s2") # {}
    /\ Get(session_last_history_length, "s2", -1) >= 1
    /\ Get(session_last_history_length, "s1", -1) # last.pre_len

\* The handler has returned after event.get_sender_name() raised at line
\* 499, behind the pop of line 487 that detached the system entry.
RaisedAfterDetach ==
    /\ rcalls = 1
    /\ quote = "ok"
    /\ during = "sender_raises"
    /\ _prepare_multimodal_parts(segs).parts # <<>>
    /\ req0.contexts.list # <<>>
    /\ req0.contexts.list[1].role = "system"

\* C36: when an exception occurs in on_llm_request_handler after the system
\* entry was detached, the request context is left equal to the context
\* before the handler ran, with the system entry still first.
C36_ContextRestoredAfterException ==
    RaisedAfterDetach =>
        /\ req.contexts = req0.contexts
        /\ req.contexts.list[1].role = "system"

\* The text of context entry e holds a data URI.
CarriesDataUri(e) ==
    /\ e.content.kind = "str"
    /\ \E k \in 1..Len(e.content.text) : e.content.text[k] = "data:"

\* C37: the rendering mode is chosen with the switch value the parts were
\* built with, also when /tps sm off is handled while a download is
\* awaited: no inline image part is flattened into a text that carries its
\* data URI.
C37_NoDataUriInText ==
    (rcalls = 1 /\ quote = "ok") =>
        \A i \in 1..Len(req.contexts.list) :
            ~CarriesDataUri(req.contexts.list[i])

\* The response announces tool calls.
IsToolCall == resp.role = "tool" /\ resp.tools_call_name # <<>>

\* Every call of the handler so far has sent one notification for each tool
\* name, in list order, and nothing else; the text of the response and the
\* flag of the event are as they were.
ToolNotified ==
    LET names == resp.tools_call_name
        n == Len(names)
    IN  /\ Len(outbox) = calls * n
        /\ \A k \in 1..Len(outbox) :
               outbox[k] = [kind |-> "plain",
                            body |-> <<"calling", names[((k - 1) % n) + 1]>>]
        /\ resp.completion_text = orig
        /\ ~event_flag

\* C38: for a response with role tool and a non-empty list of tool names
\* the handler sends exactly one notification per tool name, in list
\* order, extracts no media and leaves the text unchanged; once the event
\* carries the already-handled flag, a later call of the handler sends
\* nothing and changes nothing.
C38_ToolNotificationsAndFlag ==
    /\ [](IsToolCall => ToolNotified)
    /\ [][event_flag => /\ outbox' = outbox
                        /\ resp' = resp
                        /\ event_flag' = event_flag]_vars

\* A tool response whose text is a media URL has been handled twice: two
\* notifications each time, no media message.
C38_Witness ==
    /\ IsToolCall
    /\ calls = 2
    /\ orig = A_https_url
    /\ Len(outbox) = 4
    /\ outbox[1].body = <<"calling", "t1">>
    /\ outbox[2].body = <<"calling", "t2">>

\* C39: every call of understand_media_from_reply yields exactly one
\* result message, and when it has returned no media file it downloaded is
\* left in the temp directory.
C39_OneResultAndNoFileLeft ==
    tool_done => Len(tool_results) = 1 /\ temp_files = {}

====
